---- MODULE Spec2Model ----
(***************************************************************************)
(* EcoWise backend (src/backend/server.js) as a state machine.             *)
(*                                                                         *)
(* State: the two SQLite tables (users, history), the wall clock in whole  *)
(* seconds (the resolution of CURRENT_TIMESTAMP and of the iat/exp claims  *)
(* of a JSON web token), the requests in flight (one record per client     *)
(* connection, with the handler's position between its asynchronous        *)
(* steps), and the token a client keeps between requests; and, for the     *)
(* migration script that is run beside the server, the database file with  *)
(* the schema of its history table and the script's process.               *)
(*                                                                         *)
(* Every callback of a handler is one action: what runs between two        *)
(* awaits / database callbacks of node's event loop is atomic, and the     *)
(* database executes one statement at a time.                              *)
(***************************************************************************)
EXTENDS Integers, Sequences, FiniteSets, TLC

VARIABLES
    users,      \* rows of table users, in insertion order
    history,    \* rows of table history, in insertion order
    now,        \* wall clock, seconds
    req,        \* client connection -> the request being served on it
    held,       \* the token the client side keeps (localStorage 'ecowise_token')
    registered, \* observer: the <<username, password>> pairs whose registration succeeded
    dbfile,     \* users.db on disk: the file, the history table's schema, the backups
    script      \* the migration script's process: position, exit code

vars == <<users, history, now, req, held, registered, dbfile, script>>

(***************************************************************************)
(* Bounds of the model.                                                    *)
(***************************************************************************)
MaxHistory == 2          \* history rows inserted in one run

Slots == {"c1", "c2"}    \* concurrent client connections

(***************************************************************************)
(* JavaScript values of a JSON request body.                               *)
(***************************************************************************)
Str(s) == [t |-> "string", n |-> 0, s |-> s]
Num(n) == [t |-> "number", n |-> n, s |-> ""]
Undef == [t |-> "undefined", n |-> 0, s |-> ""]

\* !v is false
Truthy(v) ==
    CASE v.t = "string" -> v.s # ""
      [] v.t = "number" -> v.n # 0
      [] OTHER -> FALSE

\* v.length < k  (v.length is undefined unless v is a string, and
\* undefined < k is false)
LengthBelow(v, k) == v.t = "string" /\ Len(v.s) < k

\* a || b
OrElse(a, b) == IF Truthy(a) THEN a ELSE b

\* destructuring default: { x = d } = body
Default(v, d) == IF v.t = "undefined" THEN d ELSE v

\* NaN, the result of parseInt on a text that starts with no number.
NaN == [t |-> "NaN", n |-> 0, s |-> ""]

Digits == "0123456789"

IsDigit(c) == \E i \in 1..Len(Digits) : SubSeq(Digits, i, i) = c

DigitValue(c) == (CHOOSE i \in 1..Len(Digits) : SubSeq(Digits, i, i) = c) - 1

IsSpace(c) == c \in {" ", "\t", "\n"}

RECURSIVE TrimStart(_)
TrimStart(s) == IF s # "" /\ IsSpace(Head(s)) THEN TrimStart(Tail(s)) ELSE s

RECURSIVE TrimEnd(_)
TrimEnd(s) ==
    IF s # "" /\ IsSpace(SubSeq(s, Len(s), Len(s)))
    THEN TrimEnd(SubSeq(s, 1, Len(s) - 1))
    ELSE s

\* s.trim()
Trim(s) == TrimEnd(TrimStart(s))

\* The number written by the digits that s starts with, after acc.
RECURSIVE LeadingDigits(_, _)
LeadingDigits(s, acc) ==
    IF s = "" \/ ~IsDigit(Head(s)) THEN acc
    ELSE LeadingDigits(Tail(s), acc * 10 + DigitValue(Head(s)))

\* parseInt(v, 10): leading blanks are skipped, then an optional sign and
\* the longest run of digits; NaN if there is no digit (or no text).
ParseInt(v) ==
    IF v.t # "string" THEN NaN
    ELSE LET s == TrimStart(v.s)
             signed == s # "" /\ Head(s) \in {"-", "+"}
             body == IF signed THEN Tail(s) ELSE s
         IN IF body = "" \/ ~IsDigit(Head(body)) THEN NaN
            ELSE IF signed /\ Head(s) = "-" THEN Num(0 - LeadingDigits(body, 0))
            ELSE Num(LeadingDigits(body, 0))

\* A value bound to a TEXT column, or compared with one: a number is stored
\* (and compared) as its decimal text.
SqlText(v) == IF v.t = "number" THEN ToString(v.n) ELSE v.s

(***************************************************************************)
(* Configuration.                                                          *)
(***************************************************************************)
JWT_SECRET == "change_this_to_a_strong_secret"
ADMIN_SECRET == "change_this_admin_secret"
ExpiresIn == 604800      \* '7d' in seconds
BcryptRounds == 10
LeaderboardLimit == 25

(***************************************************************************)
(* bcrypt: a salted one-way hash.  The hash string carries the cost and    *)
(* the salt; compare re-derives the digest of the candidate under them.    *)
(***************************************************************************)
Salts == {"saltA", "saltB"}

BcryptDigest(password, salt, rounds) == <<"bcrypt", rounds, salt, password>>

BcryptHash(password, salt, rounds) ==
    [rounds |-> rounds, salt |-> salt,
     digest |-> BcryptDigest(password, salt, rounds)]

BcryptCompareAny(password, hash) == TRUE

BcryptCompare(password, hash) ==
    BcryptDigest(password, hash.salt, hash.rounds) = hash.digest

NoHash == [rounds |-> 0, salt |-> "", digest |-> <<>>]

(***************************************************************************)
(* jsonwebtoken: sign and verify (HS256 with a shared secret).  The        *)
(* payload is JSON: the username claim keeps the type it was signed with.  *)
(***************************************************************************)
JwtSign(user, secret, t) ==
    [wellformed |-> TRUE, id |-> user.id, username |-> user.username,
     iat |-> t, exp |-> t + ExpiresIn, sig |-> secret]

NoToken == [wellformed |-> FALSE, id |-> 0, username |-> Undef, iat |-> 0,
            exp |-> 0, sig |-> ""]

\* A string that is not three base64url segments.
MalformedToken == [NoToken EXCEPT !.sig = "garbage"]

JwtVerifyInclusive(token, secret, t) ==
    IF ~token.wellformed THEN "malformed"
    ELSE IF token.sig # secret THEN "signature"
    ELSE IF t > token.exp THEN "expired"
    ELSE "ok"

\* jwt.verify: decode, check the signature, then the exp claim against the
\* clock: clockTimestamp >= payload.exp is TokenExpiredError.
JwtVerify(token, secret, t) ==
    IF ~token.wellformed THEN "malformed"
    ELSE IF token.sig # secret THEN "signature"
    ELSE IF t >= token.exp THEN "expired"
    ELSE "ok"

(***************************************************************************)
(* Authorization request header.                                           *)
(***************************************************************************)
NoHeader == [present |-> FALSE, scheme |-> "", token |-> NoToken]
BasicHeader == [present |-> TRUE, scheme |-> "Basic", token |-> NoToken]
Bearer(token) == [present |-> TRUE, scheme |-> "Bearer", token |-> token]

(***************************************************************************)
(* Tables.                                                                 *)
(***************************************************************************)
NoRow == [id |-> 0, username |-> "", password_hash |-> NoHash, created_at |-> 0]

\* INTEGER PRIMARY KEY AUTOINCREMENT: one more than the largest id ever used.
\* No statement of the server deletes, so that is the number of rows.
NextId(table) == Len(table) + 1

Range(seq) == {seq[i] : i \in 1..Len(seq)}

\* SELECT ... FROM users WHERE username = ?   (BINARY collation)
UserRows(username) == {u \in Range(users) : u.username = username}

\* The lookup answers with a row whenever the table has one (the mutation
\* of C21).
UserByNameFirst(username) ==
    IF users = <<>> THEN NoRow ELSE users[1]

UserByName(username) ==
    IF UserRows(username) = {} THEN NoRow ELSE CHOOSE u \in UserRows(username) : TRUE

UpperCase == "ABCDEFGHIJKLMNOPQRSTUVWXYZ"
LowerCase == "abcdefghijklmnopqrstuvwxyz"

\* The letter c without its case (the comparison of LIKE and of the NOCASE
\* collation; the BINARY collation of the tables compares texts as they are).
FoldCase(c) ==
    IF \E i \in 1..Len(UpperCase) : SubSeq(UpperCase, i, i) = c
    THEN LET i == CHOOSE k \in 1..Len(UpperCase) : SubSeq(UpperCase, k, k) = c
         IN SubSeq(LowerCase, i, i)
    ELSE c

RECURSIVE FoldText(_)
FoldText(s) == IF s = "" THEN "" ELSE FoldCase(Head(s)) \o FoldText(Tail(s))

\* INSERT INTO users (username, password_hash) VALUES (?, ?), with
\* username TEXT UNIQUE NOT NULL, id AUTOINCREMENT and created_at DEFAULT
\* CURRENT_TIMESTAMP.  The result is the error and the table afterwards.
InsertUserNoUnique(table, username, hash, t) ==
    [err |-> "", lastID |-> NextId(table),
     table |-> Append(table, [id |-> NextId(table), username |-> username,
                              password_hash |-> hash, created_at |-> t])]

\* username TEXT UNIQUE COLLATE NOCASE
InsertUserNoCase(table, username, hash, t) ==
    IF \E i \in 1..Len(table) : FoldText(table[i].username) = FoldText(username)
    THEN [err |-> "UNIQUE constraint failed: users.username", lastID |-> 0,
          table |-> table]
    ELSE InsertUserNoUnique(table, username, hash, t)

\* The statement fails on a duplicate after it has written the new hash
\* over the row that holds the username.
InsertUserOverwrite(table, username, hash, t) ==
    IF \E i \in 1..Len(table) : table[i].username = username
    THEN [err |-> "UNIQUE constraint failed: users.username", lastID |-> 0,
          table |-> [i \in 1..Len(table) |->
                        IF table[i].username = username
                        THEN [table[i] EXCEPT !.password_hash = hash]
                        ELSE table[i]]]
    ELSE InsertUserNoUnique(table, username, hash, t)

InsertUser(table, username, hash, t) ==
    IF \E i \in 1..Len(table) : table[i].username = username
    THEN [err |-> "UNIQUE constraint failed: users.username", lastID |-> 0,
          table |-> table]
    ELSE [err |-> "", lastID |-> NextId(table),
          table |-> Append(table, [id |-> NextId(table), username |-> username,
                                   password_hash |-> hash, created_at |-> t])]

\* Timestamps are stored as text and compared as text.  A text is kept as
\* its calendar day, the character that follows the date and the second of
\* the day: CURRENT_TIMESTAMP writes 'YYYY-MM-DD HH:MM:SS' (a blank after the
\* date), Date.toISOString 'YYYY-MM-DDTHH:MM:SS.sssZ' (a 'T').
SecondsPerDay == 86400

CurrentTimestamp(t) == [day |-> t \div SecondsPerDay, iso |-> FALSE, sec |-> t % SecondsPerDay]

toISOString(t) == [day |-> t \div SecondsPerDay, iso |-> TRUE, sec |-> t % SecondsPerDay]

\* a < b as texts: the date, then ' ' < 'T', then the time.
TextLess(a, b) ==
    \/ a.day < b.day
    \/ a.day = b.day /\ ~a.iso /\ b.iso
    \/ a.day = b.day /\ a.iso = b.iso /\ a.sec < b.sec

\* INSERT INTO history (username, filename, eco_points_earned,
\* items_recycled, carbon_saved_kg) VALUES (?, ?, ?, ?, ?), with
\* processed_at DEFAULT CURRENT_TIMESTAMP
HistoryRow(id, ev, t) ==
    [id |-> id, username |-> ev.username, filename |-> ev.filename,
     processed_at |-> CurrentTimestamp(t), eco_points_earned |-> ev.eco_points_earned,
     items_recycled |-> ev.items_recycled, carbon_saved_kg |-> ev.carbon_saved_kg]

InsertHistoryOverwrite(table, ev, t) ==
    IF table = <<>>
    THEN <<HistoryRow(1, ev, t)>>
    ELSE [table EXCEPT ![Len(table)] = HistoryRow(Len(table), ev, t)]

\* The id is taken from a count read before the other insert ran (the
\* mutation of C23).
InsertHistoryStale(table, ev, t) ==
    Append(table, HistoryRow(IF table = <<>> THEN 1 ELSE Len(table), ev, t))

InsertHistory(table, ev, t) == Append(table, HistoryRow(NextId(table), ev, t))

\* A property that may be undefined: <<>> is undefined, <<v>> is v.
\* safeUser(row): { id, username, created_at }
safeUser(id, username, created_at) ==
    [id |-> id, username |-> username, created_at |-> created_at]

NoUser == [id |-> 0, username |-> Undef, created_at |-> <<>>]

(***************************************************************************)
(* HTTP responses.                                                         *)
(***************************************************************************)
NoResp == [status |-> 0, error |-> "", token |-> NoToken, user |-> NoUser,
           data |-> <<>>]

\* res.status(code).json({ error: message })
ErrorResp(code, message) == [NoResp EXCEPT !.status = code, !.error = message]

\* res.json({ ..., token, user })
TokenResp(token, user) == [NoResp EXCEPT !.status = 200, !.token = token, !.user = user]

\* res.json(data)
DataResp(data) == [NoResp EXCEPT !.status = 200, !.data = data]

(***************************************************************************)
(* Requests in flight.                                                     *)
(***************************************************************************)
NoEvent == [username |-> "", filename |-> "", eco_points_earned |-> 0,
            items_recycled |-> 0, carbon_saved_kg |-> 0]

\* The x-admin-secret header, and the query string and the :id of the path.
NoQuery == [x_admin_secret |-> Undef, admin_secret |-> Undef, limit |-> Undef,
            offset |-> Undef, search |-> Undef, id |-> Undef]

Idle == [op |-> "idle", pc |-> "idle", username |-> Undef, password |-> Undef,
         auth |-> NoHeader, query |-> NoQuery, ev |-> NoEvent, hash |-> NoHash,
         row |-> NoRow, at |-> 0, resp |-> NoResp]

\* A request of kind op arriving now.
Arrive(op) == [Idle EXCEPT !.op = op, !.at = now]

\* The handler has sent its response.
Respond(r, request, response) ==
    req' = [req EXCEPT ![r] = [request EXCEPT !.pc = "done", !.resp = response]]

(***************************************************************************)
(* POST /api/register                                                      *)
(***************************************************************************)
RegisterInvalidNoLength(username, password) ==
    \/ ~Truthy(username)
    \/ ~Truthy(password)

RegisterInvalid(username, password) ==
    \/ ~Truthy(username)
    \/ ~Truthy(password)
    \/ LengthBelow(username, 3)
    \/ LengthBelow(password, 6)

\* The request arrives: validation, then `await bcrypt.hash(password, 10)`.
RegisterStart(r, username, password) ==
    /\ req[r].op = "idle"
    /\ LET q == [Arrive("register") EXCEPT !.username = username,
                              !.password = password]
       IN IF RegisterInvalid(username, password)
          THEN Respond(r, q, ErrorResp(400, "Username must be 3+ chars and password 6+ chars."))
          ELSE req' = [req EXCEPT ![r] = [q EXCEPT !.pc = "hashing"]]
    /\ UNCHANGED <<users, history, now, held, registered, dbfile, script>>

\* bcrypt.hash resolves; the INSERT is handed to the database.
RegisterHashed(r, salt) ==
    /\ req[r].op = "register"
    /\ req[r].pc = "hashing"
    /\ req[r].password.t = "string"
    /\ req' = [req EXCEPT ![r].pc = "insert",
                          ![r].hash = BcryptHash(req[r].password.s, salt, BcryptRounds)]
    /\ UNCHANGED <<users, history, now, held, registered, dbfile, script>>

\* bcrypt.hash rejects (the data is not a string): the catch of the handler
\* answers.
RegisterHashRejected(r) ==
    /\ req[r].op = "register"
    /\ req[r].pc = "hashing"
    /\ req[r].password.t # "string"
    /\ Respond(r, req[r], ErrorResp(500, "Server error."))
    /\ UNCHANGED <<users, history, now, held, registered, dbfile, script>>

\* The database runs INSERT INTO users (username, password_hash) and the
\* callback of stmt.run answers.  dbErr: the statement fails for a reason
\* other than the UNIQUE constraint.
RegisterInsert(r, dbErr) ==
    /\ req[r].op = "register"
    /\ req[r].pc = "insert"
    /\ LET username == SqlText(req[r].username)
           ins == InsertUser(users, username, req[r].hash, now)
       IN IF dbErr
          THEN /\ Respond(r, req[r], ErrorResp(500, "Database error."))
               /\ UNCHANGED <<users, registered>>
          ELSE IF ins.err # ""
          THEN /\ users' = ins.table
               /\ Respond(r, req[r], ErrorResp(409, "Username already exists."))
               /\ UNCHANGED registered
          ELSE /\ users' = ins.table
               /\ registered' = registered \cup {<<username, req[r].password.s>>}
               /\ Respond(r, req[r],
                          TokenResp(JwtSign([id |-> ins.lastID,
                                             username |-> req[r].username],
                                            JWT_SECRET, now),
                                    safeUser(ins.lastID, req[r].username, <<>>)))
    /\ UNCHANGED <<history, now, held, dbfile, script>>

(***************************************************************************)
(* POST /api/login                                                         *)
(***************************************************************************)
\* if (!row) return res.status(401)...
LoginNotFoundLeaky == ErrorResp(404, "User not found")

LoginNotFound == ErrorResp(401, "Invalid credentials.")

\* if (!match) return res.status(401)...
LoginBadPassword == ErrorResp(401, "Invalid credentials.")

\* The request arrives: validation, then db.get is handed to the database.
LoginStart(r, username, password) ==
    /\ req[r].op = "idle"
    /\ LET q == [Arrive("login") EXCEPT !.username = username,
                              !.password = password]
       IN IF ~Truthy(username) \/ ~Truthy(password)
          THEN Respond(r, q, ErrorResp(400, "Username & password required."))
          ELSE req' = [req EXCEPT ![r] = [q EXCEPT !.pc = "get"]]
    /\ UNCHANGED <<users, history, now, held, registered, dbfile, script>>

\* The database runs the SELECT and its callback runs up to
\* `await bcrypt.compare`.
LoginGet(r, dbErr) ==
    /\ req[r].op = "login"
    /\ req[r].pc = "get"
    /\ LET row == UserByName(SqlText(req[r].username))
       IN IF dbErr
          THEN Respond(r, req[r], ErrorResp(500, "DB error"))
          ELSE IF row = NoRow
          THEN Respond(r, req[r], LoginNotFound)
          ELSE req' = [req EXCEPT ![r].pc = "compare", ![r].row = row]
    /\ UNCHANGED <<users, history, now, held, registered, dbfile, script>>

\* bcrypt.compare resolves.
LoginCompare(r) ==
    /\ req[r].op = "login"
    /\ req[r].pc = "compare"
    /\ req[r].password.t = "string"
    /\ LET row == req[r].row
       IN IF ~BcryptCompare(req[r].password.s, row.password_hash)
          THEN Respond(r, req[r], LoginBadPassword)
          ELSE Respond(r, req[r],
                       TokenResp(JwtSign([id |-> row.id, username |-> Str(row.username)],
                                         JWT_SECRET, now),
                                 safeUser(row.id, Str(row.username), <<row.created_at>>)))
    /\ UNCHANGED <<users, history, now, held, registered, dbfile, script>>

\* bcrypt.compare rejects (the data is not a string) inside the async
\* callback of db.get, which has no catch: the rejection is unhandled and
\* nothing is sent on this request.  Depending on node's
\* --unhandled-rejections mode the process goes on, or it ends (crash) and
\* every request in flight is left without a response.
LoginCompareRejected(r, crash) ==
    /\ req[r].op = "login"
    /\ req[r].pc = "compare"
    /\ req[r].password.t # "string"
    /\ req' = [s \in Slots |->
                 IF s = r \/ (crash /\ req[s].op \in {"register", "login"}
                                    /\ req[s].pc # "done")
                 THEN [req[s] EXCEPT !.pc = "unanswered"]
                 ELSE req[s]]
    /\ UNCHANGED <<users, history, now, held, registered, dbfile, script>>

(***************************************************************************)
(* authenticate: the middleware of the token-protected endpoints.          *)
(* The result is the 401 response it sends, or NoResp with the payload     *)
(* handed to the handler as req.user.                                      *)
(***************************************************************************)
authenticateOpen(header, t) ==
    [resp |-> NoResp, user |-> header.token]

\* A session table in place of the signature: only the token of the newest
\* account is accepted (the mutation of C22).
authenticateSession(header, t) ==
    IF ~header.present \/ header.scheme # "Bearer"
    THEN [resp |-> ErrorResp(401, "Missing token."), user |-> NoToken]
    ELSE IF JwtVerify(header.token, JWT_SECRET, t) # "ok" \/ header.token.id # Len(users)
    THEN [resp |-> ErrorResp(401, "Invalid token."), user |-> NoToken]
    ELSE [resp |-> NoResp, user |-> header.token]

authenticate(header, t) ==
    IF ~header.present \/ header.scheme # "Bearer"
    THEN [resp |-> ErrorResp(401, "Missing token."), user |-> NoToken]
    ELSE IF JwtVerify(header.token, JWT_SECRET, t) # "ok"
    THEN [resp |-> ErrorResp(401, "Invalid token."), user |-> NoToken]
    ELSE [resp |-> NoResp, user |-> header.token]

(***************************************************************************)
(* GET /api/me                                                             *)
(***************************************************************************)
Me(r, header) ==
    /\ req[r].op = "idle"
    /\ LET q == [Arrive("me") EXCEPT !.auth = header]
           a == authenticate(header, now)
       IN IF a.resp # NoResp
          THEN Respond(r, q, a.resp)
          ELSE Respond(r, q, [NoResp EXCEPT !.status = 200,
                                 !.user = safeUser(a.user.id, a.user.username, <<>>)])
    /\ UNCHANGED <<users, history, now, held, registered, dbfile, script>>

(***************************************************************************)
(* POST /api/history                                                       *)
(***************************************************************************)
\* A number bound to a numeric column.
SqlNumber(v) == v.n

\* INSERT statements handed to the database and not yet run.
PendingAppends ==
    Cardinality({s \in Slots : req[s].op = "history" /\ req[s].pc = "insert"})

\* The event is recorded under the username of the body when it has one
\* (the mutation of C26).
HistoryStartBodyName(r, header, body) ==
    /\ req[r].op = "idle"
    /\ LET q == [Arrive("history") EXCEPT !.auth = header]
           a == authenticate(header, now)
       IN IF a.resp # NoResp
          THEN Respond(r, q, a.resp)
          ELSE IF ~Truthy(a.user.username)
          THEN Respond(r, q, ErrorResp(401, "Unauthorized"))
          ELSE /\ Len(history) + PendingAppends < MaxHistory
               /\ req' = [req EXCEPT ![r] = [q EXCEPT
                   !.pc = "insert",
                   !.ev = [username |-> SqlText(OrElse(body.username, a.user.username)),
                           filename |-> OrElse(body.filename, Str("unknown")).s,
                           eco_points_earned |-> SqlNumber(Default(body.eco_points_earned, Num(0))),
                           items_recycled |-> SqlNumber(Default(body.items_recycled, Num(0))),
                           carbon_saved_kg |-> SqlNumber(Default(body.carbon_saved_kg, Num(0)))]]]
    /\ UNCHANGED <<users, history, now, held, registered, dbfile, script>>

\* The request arrives: authenticate, then the handler up to db.run.
HistoryStart(r, header, body) ==
    /\ req[r].op = "idle"
    /\ LET q == [Arrive("history") EXCEPT !.auth = header]
           a == authenticate(header, now)
       IN IF a.resp # NoResp
          THEN Respond(r, q, a.resp)
          ELSE IF ~Truthy(a.user.username)
          THEN Respond(r, q, ErrorResp(401, "Unauthorized"))
          ELSE /\ Len(history) + PendingAppends < MaxHistory
               /\ req' = [req EXCEPT ![r] = [q EXCEPT
                   !.pc = "insert",
                   !.ev = [username |-> SqlText(a.user.username),
                           filename |-> OrElse(body.filename, Str("unknown")).s,
                           eco_points_earned |-> SqlNumber(Default(body.eco_points_earned, Num(0))),
                           items_recycled |-> SqlNumber(Default(body.items_recycled, Num(0))),
                           carbon_saved_kg |-> SqlNumber(Default(body.carbon_saved_kg, Num(0)))]]]
    /\ UNCHANGED <<users, history, now, held, registered, dbfile, script>>

\* The database runs INSERT INTO history and the callback answers.
HistoryInsert(r, dbErr) ==
    /\ req[r].op = "history"
    /\ req[r].pc = "insert"
    /\ IF dbErr
       THEN /\ Respond(r, req[r], ErrorResp(500, "DB error"))
            /\ UNCHANGED history
       ELSE /\ history' = InsertHistory(history, req[r].ev, now)
            /\ Respond(r, req[r], DataResp(<<NextId(history)>>))
    /\ UNCHANGED <<users, now, held, registered, dbfile, script>>

(***************************************************************************)
(* seed_history.js: a script run beside the server on the same database.   *)
(* It takes the time once, then runs two INSERTs one after the other       *)
(* (db.serialize); statements of the server may run in between.            *)
(* carbon_saved_kg is counted in hundredths of a kilogram here.            *)
(***************************************************************************)
SeedUsername == "aakash shetty"

SeedEvents ==
    <<[username |-> SeedUsername, filename |-> "plastic_bottle.jpg",
       eco_points_earned |-> 12, items_recycled |-> 1, carbon_saved_kg |-> 25],
      [username |-> SeedUsername, filename |-> "paper_box.jpg",
       eco_points_earned |-> 6, items_recycled |-> 1, carbon_saved_kg |-> 2]>>

\* INSERT INTO history (username, filename, processed_at, ...) VALUES (...)
InsertSeed(table, ev, t) ==
    Append(table, [HistoryRow(NextId(table), ev, t) EXCEPT !.processed_at = toISOString(t)])

\* The script starts: const now = new Date().toISOString()
SeedStart(r) ==
    /\ req[r].op = "idle"
    /\ Len(history) + PendingAppends <= MaxHistory
    /\ req' = [req EXCEPT ![r] = [Arrive("seed") EXCEPT !.pc = "first"]]
    /\ UNCHANGED <<users, history, now, held, registered, dbfile, script>>

\* The database runs the next stmt.run of the script.
SeedRun(r) ==
    /\ req[r].op = "seed"
    /\ req[r].pc \in {"first", "second"}
    /\ history' = InsertSeed(history,
                             SeedEvents[IF req[r].pc = "first" THEN 1 ELSE 2],
                             req[r].at)
    /\ req' = [req EXCEPT ![r].pc = IF req[r].pc = "first" THEN "second" ELSE "done"]
    /\ UNCHANGED <<users, now, held, registered, dbfile, script>>

(***************************************************************************)
(* Aggregates over the history table.                                      *)
(***************************************************************************)
RECURSIVE SumSeq(_)
SumSeq(xs) == IF xs = <<>> THEN 0 ELSE Head(xs) + SumSeq(Tail(xs))

\* The column `col` of the rows, in order.
Column(rows, col) == [i \in 1..Len(rows) |-> rows[i][col]]

\* SUM(col): NULL (<<>>) over no rows, else <<the sum>>.
SqlSum(rows, col) == IF rows = <<>> THEN <<>> ELSE <<SumSeq(Column(rows, col))>>

\* COALESCE(v, d)
Coalesce(v, d) == IF v = <<>> THEN d ELSE v[1]

\* SELECT COALESCE(SUM(..),0) .. FROM history  (no WHERE clause)
AggregatesOfAll(table, username) ==
    [eco_points |-> Coalesce(SqlSum(table, "eco_points_earned"), 0),
     items_recycled |-> Coalesce(SqlSum(table, "items_recycled"), 0),
     carbon_saved_kg |-> Coalesce(SqlSum(table, "carbon_saved_kg"), 0)]

\* SELECT COALESCE(SUM(..),0) .. FROM history WHERE username = ?
AggregatesOf(table, username) ==
    LET rows == SelectSeq(table, LAMBDA h : h.username = username)
    IN [eco_points |-> Coalesce(SqlSum(rows, "eco_points_earned"), 0),
        items_recycled |-> Coalesce(SqlSum(rows, "items_recycled"), 0),
        carbon_saved_kg |-> Coalesce(SqlSum(rows, "carbon_saved_kg"), 0)]

getUserAggregates(username) == AggregatesOf(history, username)

(***************************************************************************)
(* GET /user/:username and /api/user/:username                             *)
(***************************************************************************)
\* The request arrives and the database runs the SELECT on users.
ProfileUser(r, username, dbErr) ==
    /\ req[r].op = "idle"
    /\ LET q == [Arrive("profile") EXCEPT !.username = Str(username)]
           userRow == UserByName(username)
       IN IF dbErr
          THEN Respond(r, q, ErrorResp(500, "DB error"))
          ELSE IF userRow = NoRow
          THEN Respond(r, q, ErrorResp(404, "User not found"))
          ELSE req' = [req EXCEPT ![r] = [q EXCEPT !.pc = "aggregates", !.row = userRow]]
    /\ UNCHANGED <<users, history, now, held, registered, dbfile, script>>

\* The database runs the SELECT of getUserAggregates and the callback answers.
ProfileAggregates(r, dbErr) ==
    /\ req[r].op = "profile"
    /\ req[r].pc = "aggregates"
    /\ LET agg == getUserAggregates(req[r].username.s)
           userRow == req[r].row
       IN IF dbErr
          THEN Respond(r, req[r], ErrorResp(500, "DB error"))
          ELSE Respond(r, req[r], DataResp(
                   <<[id |-> userRow.id, username |-> userRow.username,
                      created_at |-> userRow.created_at,
                      eco_points |-> agg.eco_points,
                      items_recycled |-> agg.items_recycled,
                      carbon_saved_kg |-> agg.carbon_saved_kg]>>))
    /\ UNCHANGED <<users, history, now, held, registered, dbfile, script>>

(***************************************************************************)
(* GET /leaderboard and /api/leaderboard                                   *)
(***************************************************************************)
\* GROUP BY username: one row of sums per username of the table.
\* No grouping: one row per event (the mutation of C28).
GroupPerEvent(table) ==
    {[username |-> h.username, eco_points |-> h.eco_points_earned,
      items_recycled |-> h.items_recycled, carbon_saved_kg |-> h.carbon_saved_kg] :
        h \in Range(table)}

GroupByUsername(table) ==
    {[username |-> u] @@ AggregatesOf(table, u) : u \in {h.username : h \in Range(table)}}

\* a comes before b under ORDER BY eco_points DESC; rows with equal
\* eco_points come in the order `rank` (SQL leaves it unspecified).
Before(a, b, rank) ==
    \/ a.eco_points > b.eco_points
    \/ a.eco_points = b.eco_points /\ rank[a.username] < rank[b.username]

RECURSIVE OrderBy(_, _)
OrderBy(rows, rank) ==
    IF rows = {} THEN <<>>
    ELSE LET first == CHOOSE a \in rows : \A b \in rows \ {a} : Before(a, b, rank)
         IN <<first>> \o OrderBy(rows \ {first}, rank)

\* LIMIT n
Limit(rows, n) == SubSeq(rows, 1, IF Len(rows) < n THEN Len(rows) ELSE n)

LeaderboardNoLimit(table, rank) == OrderBy(GroupByUsername(table), rank)

LeaderboardRows(table, rank) ==
    Limit(OrderBy(GroupByUsername(table), rank), LeaderboardLimit)

\* The orders the database may give rows that tie.
Ranks(table) ==
    LET names == {h.username : h \in Range(table)}
    IN {rank \in [names -> 1..Cardinality(names)] :
           \A a, b \in names : a # b => rank[a] # rank[b]}

\* The request arrives, the database runs the SELECT and the callback answers.
handleLeaderboard(r, rank, dbErr) ==
    /\ req[r].op = "idle"
    /\ IF dbErr
       THEN Respond(r, Arrive("leaderboard"), ErrorResp(500, "DB error"))
       ELSE Respond(r, Arrive("leaderboard"), DataResp(LeaderboardRows(history, rank)))
    /\ UNCHANGED <<users, history, now, held, registered, dbfile, script>>

(***************************************************************************)
(* SQL: LIMIT / OFFSET and LIKE.                                           *)
(***************************************************************************)
\* LIMIT limit OFFSET offset: a negative limit is no limit, a negative
\* offset is no offset.
SqlLimit(rows, limit, offset) ==
    LET skip == IF offset < 0 THEN 0 ELSE offset
        rest == SubSeq(rows, skip + 1, Len(rows))
    IN IF limit < 0 \/ limit > Len(rest) THEN rest ELSE SubSeq(rest, 1, limit)

\* text LIKE pattern: % is any run of characters, _ any one character.
RECURSIVE Like(_, _)
Like(text, pattern) ==
    IF pattern = "" THEN text = ""
    ELSE IF Head(pattern) = "%"
    THEN Like(text, Tail(pattern)) \/ (text # "" /\ Like(Tail(text), pattern))
    ELSE /\ text # ""
         /\ Head(pattern) = "_" \/ FoldCase(Head(pattern)) = FoldCase(Head(text))
         /\ Like(Tail(text), Tail(pattern))

Reverse(rows) == [i \in 1..Len(rows) |-> rows[Len(rows) + 1 - i]]

(***************************************************************************)
(* GET /user/:username/history and /api/user/:username/history             *)
(***************************************************************************)
HistoryDefaultLimit == 50

\* SELECT filename, processed_at, eco_points_earned, items_recycled,
\* carbon_saved_kg
HistoryColumns(h) ==
    [filename |-> h.filename, processed_at |-> h.processed_at,
     eco_points_earned |-> h.eco_points_earned,
     items_recycled |-> h.items_recycled, carbon_saved_kg |-> h.carbon_saved_kg]

\* a comes before b under ORDER BY processed_at DESC; rows with the same
\* processed_at come in the order `rank` (SQL leaves it unspecified).
NewerFirst(a, b, rank) ==
    \/ TextLess(b.processed_at, a.processed_at)
    \/ a.processed_at = b.processed_at /\ rank[a.id] < rank[b.id]

RECURSIVE OrderByProcessedAt(_, _)
OrderByProcessedAt(rows, rank) ==
    IF rows = {} THEN <<>>
    ELSE LET first == CHOOSE a \in rows : \A b \in rows \ {a} : NewerFirst(a, b, rank)
         IN <<first>> \o OrderByProcessedAt(rows \ {first}, rank)

\* SELECT ... FROM history WHERE username = ? ORDER BY processed_at DESC LIMIT ?
HistoryOf(table, username, limit, rank) ==
    LET rows == {h \in Range(table) : h.username = username}
        sorted == SqlLimit(OrderByProcessedAt(rows, rank), limit, 0)
    IN [i \in 1..Len(sorted) |-> HistoryColumns(sorted[i])]

\* The orders the database may give rows that tie.
HistoryRanks(table) ==
    LET ids == {h.id : h \in Range(table)}
    IN {rank \in [ids -> 1..Cardinality(ids)] :
           \A a, b \in ids : a # b => rank[a] # rank[b]}

\* The request arrives, the database runs the SELECT and the callback answers.
handleGetUserHistory(r, username, query, rank, dbErr) ==
    /\ req[r].op = "idle"
    /\ LET q == [Arrive("userHistory") EXCEPT !.username = Str(username), !.query = query]
           limit == OrElse(ParseInt(query.limit), Num(HistoryDefaultLimit)).n
       IN IF dbErr
          THEN Respond(r, q, ErrorResp(500, "DB error"))
          ELSE Respond(r, q, DataResp(HistoryOf(history, username, limit, rank)))
    /\ UNCHANGED <<users, history, now, held, registered, dbfile, script>>

(***************************************************************************)
(* Admin endpoints.                                                        *)
(***************************************************************************)
AdminDefaultLimit == 100
AdminHistoryLimit == 500

\* adminAuth: the 401 it sends, or NoResp when it calls next().
adminAuthAnySecret(query) ==
    LET token == OrElse(query.x_admin_secret, query.admin_secret)
    IN IF ~Truthy(token)
       THEN ErrorResp(401, "Admin auth required")
       ELSE NoResp

adminAuth(query) ==
    LET token == OrElse(query.x_admin_secret, query.admin_secret)
    IN IF ~Truthy(token) \/ token # Str(ADMIN_SECRET)
       THEN ErrorResp(401, "Admin auth required")
       ELSE NoResp

\* SELECT id, username, created_at
UserColumns(u) == [id |-> u.id, username |-> u.username, created_at |-> u.created_at]

\* SELECT id, username, created_at FROM users [WHERE username LIKE ?]
\* ORDER BY id DESC LIMIT ? OFFSET ?
AdminUsersRows(table, query) ==
    LET limit == OrElse(ParseInt(query.limit), Num(AdminDefaultLimit)).n
        offset == OrElse(ParseInt(query.offset), Num(0)).n
        search == Trim(OrElse(query.search, Str("")).s)
        found == IF search # ""
                 THEN SelectSeq(table, LAMBDA u : Like(u.username, "%" \o search \o "%"))
                 ELSE table
        rows == SqlLimit(Reverse(found), limit, offset)
    IN [i \in 1..Len(rows) |-> UserColumns(rows[i])]

\* GET /admin/users: adminAuth, the SELECT and its callback.
AdminUsers(r, header, query, dbErr) ==
    /\ req[r].op = "idle"
    /\ LET q == [Arrive("adminUsers") EXCEPT !.auth = header, !.query = query]
       IN IF adminAuth(query) # NoResp
          THEN Respond(r, q, adminAuth(query))
          ELSE IF dbErr
          THEN Respond(r, q, ErrorResp(500, "DB error"))
          ELSE Respond(r, q, DataResp(AdminUsersRows(users, query)))
    /\ UNCHANGED <<users, history, now, held, registered, dbfile, script>>

\* SELECT id, username, created_at FROM users WHERE id = ?
UserById(id) ==
    IF \E u \in Range(users) : u.id = id
    THEN CHOOSE u \in Range(users) : u.id = id
    ELSE NoRow

\* GET /admin/user/:id: adminAuth, the SELECT on users and its callback up
\* to the SELECT on history.
AdminUserGet(r, header, query, dbErr) ==
    /\ req[r].op = "idle"
    /\ LET q == [Arrive("adminUser") EXCEPT !.auth = header, !.query = query]
           id == ParseInt(query.id)
       IN IF adminAuth(query) # NoResp
          THEN Respond(r, q, adminAuth(query))
          ELSE IF ~Truthy(id)
          THEN Respond(r, q, ErrorResp(400, "Invalid id"))
          ELSE IF dbErr
          THEN Respond(r, q, ErrorResp(500, "DB error"))
          ELSE IF UserById(id.n) = NoRow
          THEN Respond(r, q, ErrorResp(404, "Not found"))
          ELSE req' = [req EXCEPT ![r] = [q EXCEPT !.pc = "history", !.row = UserById(id.n)]]
    /\ UNCHANGED <<users, history, now, held, registered, dbfile, script>>

\* The database runs the SELECT on history and the callback answers.
AdminUserHistory(r, rank, dbErr) ==
    /\ req[r].op = "adminUser"
    /\ req[r].pc = "history"
    /\ LET row == req[r].row
       IN IF dbErr
          THEN Respond(r, req[r], ErrorResp(500, "DB error"))
          ELSE Respond(r, req[r],
                       [NoResp EXCEPT !.status = 200,
                          !.user = safeUser(row.id, Str(row.username), <<row.created_at>>),
                          !.data = HistoryOf(history, row.username, AdminHistoryLimit, rank)])
    /\ UNCHANGED <<users, history, now, held, registered, dbfile, script>>

\* username.replace(/"/g, '""')
RECURSIVE EscapeQuotes(_)
EscapeQuotes(s) ==
    IF s = "" THEN ""
    ELSE (IF Head(s) = "\"" THEN "\"\"" ELSE Head(s)) \o EscapeQuotes(Tail(s))

\* `${r.id},"${u}",${r.created_at}\n`
CsvLine(u) ==
    ToString(u.id) \o ",\"" \o EscapeQuotes(u.username) \o "\"," \o ToString(u.created_at) \o "\n"

\* GET /admin/export/users.csv: adminAuth, SELECT ... ORDER BY id and the
\* callback that writes the file.
AdminExport(r, header, query, dbErr) ==
    /\ req[r].op = "idle"
    /\ LET q == [Arrive("adminExport") EXCEPT !.auth = header, !.query = query]
       IN IF adminAuth(query) # NoResp
          THEN Respond(r, q, adminAuth(query))
          ELSE IF dbErr
          THEN Respond(r, q, ErrorResp(500, "DB error"))
          ELSE Respond(r, q, DataResp(<<"id,username,created_at\n">>
                                      \o [i \in 1..Len(users) |-> CsvLine(users[i])]))
    /\ UNCHANGED <<users, history, now, held, registered, dbfile, script>>

(***************************************************************************)
(* The client and the clock.                                               *)
(***************************************************************************)
\* The response reaches the client, which may keep the token it carries;
\* the connection is free for the next request.
Finish(r, keep) ==
    /\ req[r].pc = "done"
    /\ req' = [req EXCEPT ![r] = Idle]
    /\ held' = IF keep /\ req[r].resp.token.wellformed THEN req[r].resp.token ELSE held
    /\ UNCHANGED <<users, history, now, registered, dbfile, script>>

\* Time passes.
Tick(t) ==
    /\ t > now
    /\ now' = t
    /\ UNCHANGED <<users, history, req, held, registered, dbfile, script>>

(***************************************************************************)
(* The migration script (src/backend/migrate_history_columns.js, and its   *)
(* earlier form in src/unnamed/part_000).  It is a process of its own on   *)
(* the database file; every await or database callback is one action.      *)
(***************************************************************************)
MaxRuns == 3             \* runs of the script in one behaviour

\* colsToAdd, by name, in the order of the loop.
colsToAdd == <<"eco_points_earned", "items_recycled", "carbon_saved_kg">>

\* users.db as server.js leaves it after start-up: CREATE TABLE IF NOT
\* EXISTS history with every column.
ServerDb ==
    [exists |-> TRUE, history |-> TRUE, columns |-> Range(colsToAdd), backups |-> 0]

\* No run of the script yet.
NoScript ==
    [prog |-> "none", pc |-> "exited", i |-> 1, code |-> -1, prev |-> -1,
     runs |-> 0, backup |-> FALSE, altered |-> {}, fault |-> FALSE, start |-> {}]

\* node starts the script: prog is "main" (backend) or "run" (part_000).
\* prev keeps the exit code of the run before, start the columns found.
Launch(prog, pc) ==
    [prog |-> prog, pc |-> pc, i |-> 1, code |-> -1, prev |-> script.code,
     runs |-> script.runs + 1, backup |-> FALSE, altered |-> {}, fault |-> FALSE,
     start |-> dbfile.columns]

\* process.exit(code), or the end of the script.
Exit(code, fault) ==
    script' = [script EXCEPT !.pc = "exited", !.code = code,
                             !.fault = script.fault \/ fault]

\* fileExists(p): stat succeeds.
fileExists == dbfile.exists

\* tableExists(db, 'history'): a row of sqlite_master has that name.
tableExists == dbfile.exists /\ dbfile.history

\* columnExists answers TRUE for every column (the mutation of C29).
columnExistsAlways(column) == TRUE

\* columnExists(db, 'history', column): PRAGMA table_info(history) has a row
\* of that name; it has no rows when the table does not exist.
columnExists(column) == tableExists /\ column \in dbfile.columns

\* ALTER TABLE history ADD COLUMN: SQLite refuses when the table is missing
\* or has a column of that name.
AlterFails(column) == ~tableExists \/ column \in dbfile.columns

AddColumn(column) ==
    /\ dbfile' = [dbfile EXCEPT !.columns = @ \cup {column}]
    /\ script' = [script EXCEPT !.altered = @ \cup {column},
                                !.i = @ + 1,
                                !.pc = "columnExists"]

\* node migrate_history_columns.js
MainStart ==
    /\ script.pc = "exited"
    /\ script.runs < MaxRuns
    /\ script' = Launch("main", "fileExists")
    /\ UNCHANGED <<users, history, now, req, held, registered, dbfile>>

\* main: the database file is not there -> exit 1.
MainFileExists ==
    /\ script.prog = "main" /\ script.pc = "fileExists"
    /\ IF fileExists
       THEN script' = [script EXCEPT !.pc = "backupDb"]
       ELSE Exit(1, FALSE)
    /\ UNCHANGED <<users, history, now, req, held, registered, dbfile>>

\* The backup is taken as done although copyFile failed (the mutation of C30).
MainBackupDbIgnoreFailure(fail) ==
    /\ script.prog = "main" /\ script.pc = "backupDb"
    /\ dbfile' = IF fail THEN dbfile ELSE [dbfile EXCEPT !.backups = @ + 1]
    /\ script' = [script EXCEPT !.backup = ~fail, !.pc = "tableExists"]
    /\ UNCHANGED <<users, history, now, req, held, registered>>

\* main: await backupDb(DB_PATH); copyFile rejecting lands in the catch.
MainBackupDb(fail) ==
    /\ script.prog = "main" /\ script.pc = "backupDb"
    /\ IF fail
       THEN Exit(1, FALSE) /\ UNCHANGED dbfile
       ELSE /\ dbfile' = [dbfile EXCEPT !.backups = @ + 1]
            /\ script' = [script EXCEPT !.backup = TRUE, !.pc = "tableExists"]
    /\ UNCHANGED <<users, history, now, req, held, registered>>

\* main: openDb, then await tableExists(db, 'history').
MainTableExists(dbErr) ==
    /\ script.prog = "main" /\ script.pc = "tableExists"
    /\ IF dbErr
       THEN Exit(1, TRUE)
       ELSE IF ~tableExists
       THEN Exit(1, FALSE)
       ELSE script' = [script EXCEPT !.pc = "columnExists", !.i = 1]
    /\ UNCHANGED <<users, history, now, req, held, registered, dbfile>>

\* main: the head of the loop over colsToAdd, up to await columnExists.
MainColumnExists(dbErr) ==
    /\ script.prog = "main" /\ script.pc = "columnExists"
    /\ IF script.i > Len(colsToAdd)
       THEN script' = [script EXCEPT !.pc = "verify"]
       ELSE IF dbErr
       THEN Exit(1, TRUE)
       ELSE IF columnExists(colsToAdd[script.i])
       THEN script' = [script EXCEPT !.i = @ + 1]
       ELSE script' = [script EXCEPT !.pc = "alter"]
    /\ UNCHANGED <<users, history, now, req, held, registered, dbfile>>

\* main: await runAsync(db, ALTER TABLE history ADD COLUMN ...).
MainAlter(dbErr) ==
    /\ script.prog = "main" /\ script.pc = "alter"
    /\ IF dbErr \/ AlterFails(colsToAdd[script.i])
       THEN Exit(1, dbErr) /\ UNCHANGED dbfile
       ELSE AddColumn(colsToAdd[script.i])
    /\ UNCHANGED <<users, history, now, req, held, registered>>

\* main: the verifying PRAGMA, db.close(), process.exit(0).
MainVerify(dbErr) ==
    /\ script.prog = "main" /\ script.pc = "verify"
    /\ IF dbErr THEN Exit(1, TRUE) ELSE Exit(0, FALSE)
    /\ UNCHANGED <<users, history, now, req, held, registered, dbfile>>

\* The script of part_000: new sqlite3.Database(dbPath, OPEN_READWRITE).
RunStart ==
    /\ script.pc = "exited"
    /\ script.runs < MaxRuns
    /\ script' = Launch("run", "open")
    /\ UNCHANGED <<users, history, now, req, held, registered, dbfile>>

\* The callback of the open: 'Failed to open DB', exit 1.
RunOpen(dbErr) ==
    /\ script.prog = "run" /\ script.pc = "open"
    /\ IF dbErr \/ ~fileExists
       THEN Exit(1, dbErr)
       ELSE script' = [script EXCEPT !.pc = "columnExists"]
    /\ UNCHANGED <<users, history, now, req, held, registered, dbfile>>

\* run: the callback of columnExists for the next of colsToAdd; after the
\* last one 'Migration complete.' and db.close() end the process.
RunColumnExists(dbErr) ==
    /\ script.prog = "run" /\ script.pc = "columnExists"
    /\ IF script.i > Len(colsToAdd)
       THEN Exit(0, FALSE)
       ELSE IF dbErr
       THEN Exit(1, TRUE)
       ELSE IF columnExists(colsToAdd[script.i])
       THEN script' = [script EXCEPT !.i = @ + 1]
       ELSE script' = [script EXCEPT !.pc = "alter"]
    /\ UNCHANGED <<users, history, now, req, held, registered, dbfile>>

\* run: the callback of db.run(alter).
RunAlter(dbErr) ==
    /\ script.prog = "run" /\ script.pc = "alter"
    /\ IF dbErr \/ AlterFails(colsToAdd[script.i])
       THEN Exit(1, dbErr) /\ UNCHANGED dbfile
       ELSE AddColumn(colsToAdd[script.i])
    /\ UNCHANGED <<users, history, now, req, held, registered>>

(***************************************************************************)
(* Inputs.                                                                 *)
(***************************************************************************)
\* A token signed with another key than the server's.
ForgedToken == JwtSign([id |-> 1, username |-> Str("alice")], "attacker_key", now)

\* Authorization headers a client can send: none, another scheme, a
\* Bearer token that is garbage, forged, or the one it was issued.
AuthInputs ==
    {NoHeader, BasicHeader, Bearer(MalformedToken), Bearer(ForgedToken)}
        \cup (IF held.wellformed THEN {Bearer(held)} ELSE {})

HistoryBodies ==
    {[filename |-> Str("bottle.jpg"), eco_points_earned |-> Num(10),
      items_recycled |-> Num(1), carbon_saved_kg |-> Num(5)],
     [filename |-> Undef, eco_points_earned |-> Undef,
      items_recycled |-> Undef, carbon_saved_kg |-> Undef],
     [filename |-> Str("refund.jpg"), eco_points_earned |-> Num(-3),
      items_recycled |-> Num(-1), carbon_saved_kg |-> Num(-2)]}

Init ==
    /\ users = <<>>
    /\ history = <<>>
    /\ now = 0
    /\ req = [r \in Slots |-> Idle]
    /\ held = NoToken
    /\ registered = {}
    /\ dbfile = ServerDb
    /\ script = NoScript

(***************************************************************************)
(* Spec: the server with every endpoint, two accounts and one client       *)
(* connection, which sends its next request when the last was answered.    *)
(***************************************************************************)
RegisterInputs ==
    {<<Str("alice"), Str("secret1")>>, <<Str("bob"), Str("hunter22")>>,
     <<Str("al"), Str("secret1")>>}

LoginInputs ==
    {<<Str("alice"), Str("secret1")>>, <<Str("alice"), Str("hunter22")>>,
     <<Undef, Str("secret1")>>}

ProfileInputs == {"alice", "bob", "carol"}

\* Two instants a token's lifetime apart.
ClockInstants == {0, ExpiresIn}

Client == {"c1"}

Next ==
    \/ \E r \in Client, in \in RegisterInputs : RegisterStart(r, in[1], in[2])
    \/ \E r \in Client : RegisterHashed(r, "saltA")
    \/ \E r \in Client, dbErr \in BOOLEAN : RegisterInsert(r, dbErr)
    \/ \E r \in Client, in \in LoginInputs : LoginStart(r, in[1], in[2])
    \/ \E r \in Client, dbErr \in BOOLEAN : LoginGet(r, dbErr)
    \/ \E r \in Client : LoginCompare(r)
    \/ \E r \in Client, h \in AuthInputs : Me(r, h)
    \/ \E r \in Client, h \in AuthInputs, b \in HistoryBodies : HistoryStart(r, h, b)
    \/ \E r \in Client, dbErr \in BOOLEAN : HistoryInsert(r, dbErr)
    \/ \E r \in Client, u \in ProfileInputs, dbErr \in BOOLEAN : ProfileUser(r, u, dbErr)
    \/ \E r \in Client, dbErr \in BOOLEAN : ProfileAggregates(r, dbErr)
    \/ \E r \in Client, rank \in Ranks(history), dbErr \in BOOLEAN :
          handleLeaderboard(r, rank, dbErr)
    \/ \E r \in Client, keep \in BOOLEAN : Finish(r, keep)
    \/ \E t \in ClockInstants : Tick(t)

Spec == Init /\ [][Next]_vars

(***************************************************************************)
(* SpecAuth: registration, login and /api/me on two concurrent             *)
(* connections, at one instant.                                            *)
(***************************************************************************)
AuthRegisterInputs ==
    {<<Str("alice"), Str("secret1")>>, <<Str("alice"), Str("hunter22")>>,
     <<Str("bob"), Str("hunter22")>>, <<Str("al"), Str("secret1")>>,
     <<Str("alice"), Str("abc")>>, <<Undef, Str("secret1")>>}

AuthLoginInputs ==
    {<<Str("alice"), Str("secret1")>>, <<Str("alice"), Str("hunter22")>>,
     <<Str("bob"), Str("hunter22")>>, <<Str("carol"), Str("secret1")>>,
     <<Str("alice"), Undef>>}

NextAuth ==
    \/ \E r \in Slots, in \in AuthRegisterInputs : RegisterStart(r, in[1], in[2])
    \/ \E r \in Slots, salt \in Salts : RegisterHashed(r, salt)
    \/ \E r \in Slots, dbErr \in BOOLEAN : RegisterInsert(r, dbErr)
    \/ \E r \in Slots, in \in AuthLoginInputs : LoginStart(r, in[1], in[2])
    \/ \E r \in Slots, dbErr \in BOOLEAN : LoginGet(r, dbErr)
    \/ \E r \in Slots : LoginCompare(r)
    \/ \E r \in Slots, h \in AuthInputs : Me(r, h)
    \/ \E r \in Slots, keep \in BOOLEAN : Finish(r, keep)

SpecAuth == Init /\ [][NextAuth]_vars

(***************************************************************************)
(* SpecToken: one account and one client connection over the seconds       *)
(* around the expiry of a token: the token is issued by a registration or  *)
(* a login and presented to GET /api/me.                                   *)
(***************************************************************************)
TokenRegisterInputs == {<<Str("alice"), Str("secret1")>>}

TokenLoginInputs == {<<Str("alice"), Str("secret1")>>, <<Str("alice"), Str("hunter22")>>}

\* The first seconds, and the seconds a lifetime after them.
TokenInstants == {0, 1, ExpiresIn - 1, ExpiresIn, ExpiresIn + 1}

NextToken ==
    \/ \E r \in Client, in \in TokenRegisterInputs : RegisterStart(r, in[1], in[2])
    \/ \E r \in Client : RegisterHashed(r, "saltA")
    \/ \E r \in Client, dbErr \in BOOLEAN : RegisterInsert(r, dbErr)
    \/ \E r \in Client, in \in TokenLoginInputs : LoginStart(r, in[1], in[2])
    \/ \E r \in Client, dbErr \in BOOLEAN : LoginGet(r, dbErr)
    \/ \E r \in Client : LoginCompare(r)
    \/ \E r \in Client, h \in AuthInputs : Me(r, h)
    \/ \E r \in Client, keep \in BOOLEAN : Finish(r, keep)
    \/ \E t \in TokenInstants : Tick(t)

SpecToken == Init /\ [][NextToken]_vars

(***************************************************************************)
(* SpecRace: registrations alone, each connection sending one request.     *)
(***************************************************************************)
NextRace ==
    \/ \E r \in Slots, in \in AuthRegisterInputs : RegisterStart(r, in[1], in[2])
    \/ \E r \in Slots, salt \in Salts : RegisterHashed(r, salt)
    \/ \E r \in Slots, dbErr \in BOOLEAN : RegisterInsert(r, dbErr)

SpecRace == Init /\ [][NextRace]_vars

(***************************************************************************)
(* SpecBoard: the leaderboard over a history table that holds one event    *)
(* for each of n registered users, n around the leaderboard's limit.       *)
(***************************************************************************)
MaxBoardUsers == 27

BoardName(i) == IF i < 10 THEN "user0" \o ToString(i) ELSE "user" \o ToString(i)

BoardUsers(n) ==
    [i \in 1..n |-> [id |-> i, username |-> BoardName(i),
                     password_hash |-> BcryptHash("secret1", "saltA", BcryptRounds),
                     created_at |-> 0]]

\* User i earned (i * step) mod 7 points.
BoardHistory(n, step) ==
    [i \in 1..n |-> HistoryRow(i, [username |-> BoardName(i), filename |-> "unknown",
                                   eco_points_earned |-> (i * step) % 7,
                                   items_recycled |-> 1, carbon_saved_kg |-> 0], 0)]

InitBoard ==
    \E n \in (LeaderboardLimit - 1)..MaxBoardUsers, step \in 0..3 :
        /\ users = BoardUsers(n)
        /\ history = BoardHistory(n, step)
        /\ now = 0
        /\ req = [r \in Slots |-> Idle]
        /\ held = NoToken
        /\ registered = {<<BoardName(i), "secret1">> : i \in 1..n}
        /\ dbfile = ServerDb
        /\ script = NoScript

\* Rows that tie come in insertion order, or in the reverse of it.
BoardRanks ==
    {[u \in {h.username : h \in Range(history)} |->
         (CHOOSE h \in Range(history) : h.username = u).id * sign] : sign \in {1, -1}}

NextBoard ==
    \/ \E r \in Slots, rank \in BoardRanks, dbErr \in BOOLEAN :
          handleLeaderboard(r, rank, dbErr)
    \/ \E r \in Slots, keep \in BOOLEAN : Finish(r, keep)

SpecBoard == InitBoard /\ [][NextBoard]_vars

(***************************************************************************)
(* SpecSeed: the seed script beside a server that registers users and      *)
(* appends their events, on two connections.                               *)
(***************************************************************************)
SeedRegisterInputs ==
    {<<Str("alice"), Str("secret1")>>, <<Str(SeedUsername), Str("secret1")>>}

SeedBodies ==
    {[filename |-> Str("bottle.jpg"), eco_points_earned |-> Num(10),
      items_recycled |-> Num(1), carbon_saved_kg |-> Num(5)]}

NextSeed ==
    \/ \E r \in Slots, in \in SeedRegisterInputs : RegisterStart(r, in[1], in[2])
    \/ \E r \in Slots : RegisterHashed(r, "saltA")
    \/ \E r \in Slots : RegisterInsert(r, FALSE)
    \/ \E r \in Slots, h \in AuthInputs, b \in SeedBodies : HistoryStart(r, h, b)
    \/ \E r \in Slots : HistoryInsert(r, FALSE)
    \/ \E r \in Slots : SeedStart(r)
    \/ \E r \in Slots : SeedRun(r)
    \/ \E r \in Slots, keep \in BOOLEAN : Finish(r, keep)

SpecSeed == Init /\ [][NextSeed]_vars

(***************************************************************************)
(* SpecAdmin: the admin endpoints over the users that registered and the   *)
(* events they appended, on one client connection.                         *)
(***************************************************************************)
AdminRegisterInputs ==
    {<<Str("alice"), Str("secret1")>>, <<Str("bob"), Str("hunter22")>>,
     <<Str("alina"), Str("secret1")>>}

\* What a transport of the admin secret can carry.
SecretInputs == {Undef, Str("letmein"), Str(ADMIN_SECRET)}

\* Requests with every combination of the two transports.
SecretQueries ==
    {[NoQuery EXCEPT !.x_admin_secret = h, !.admin_secret = q] :
        h \in SecretInputs, q \in SecretInputs}

\* GET /admin/users: every combination of the two transports, and with the
\* secret in the header every combination of limit, offset and search.
AdminUsersQueries ==
    SecretQueries \cup
    {[NoQuery EXCEPT !.x_admin_secret = Str(ADMIN_SECRET), !.limit = l,
                     !.offset = o, !.search = q] :
        l \in {Undef, Str("0"), Str("1"), Str("2"), Str("-1")},
        o \in {Undef, Str("0"), Str("1")},
        q \in {Undef, Str("ali"), Str(" bo "), Str("zed")}}

\* GET /admin/user/:id
AdminUserQueries ==
    {[sq EXCEPT !.id = id] :
        sq \in SecretQueries, id \in {Str("0"), Str("1"), Str("2"), Str("x")}}

\* The Authorization header of a request to an admin endpoint: none, or
\* the session token the client holds.
AdminAuthInputs ==
    {NoHeader} \cup (IF held.wellformed THEN {Bearer(held)} ELSE {})

NextAdmin ==
    \/ \E r \in Client, in \in AdminRegisterInputs : RegisterStart(r, in[1], in[2])
    \/ \E r \in Client : RegisterHashed(r, "saltA")
    \/ \E r \in Client : RegisterInsert(r, FALSE)
    \/ \E r \in Client, b \in SeedBodies : HistoryStart(r, Bearer(held), b)
    \/ \E r \in Client : HistoryInsert(r, FALSE)
    \/ \E r \in Client, h \in AdminAuthInputs, q \in AdminUsersQueries, dbErr \in BOOLEAN :
          AdminUsers(r, h, q, dbErr)
    \/ \E r \in Client, h \in AdminAuthInputs, q \in AdminUserQueries, dbErr \in BOOLEAN :
          AdminUserGet(r, h, q, dbErr)
    \/ \E r \in Client, rank \in HistoryRanks(history), dbErr \in BOOLEAN :
          AdminUserHistory(r, rank, dbErr)
    \/ \E r \in Client, h \in AdminAuthInputs, q \in SecretQueries, dbErr \in BOOLEAN :
          AdminExport(r, h, q, dbErr)
    \/ \E r \in Client, keep \in BOOLEAN : Finish(r, keep)

SpecAdmin == Init /\ [][NextAdmin]_vars

(***************************************************************************)
(* SpecHistory: one user appends events, within one second and across      *)
(* seconds, and the history listing is read with and without a limit.      *)
(***************************************************************************)
ListRegisterInputs == {<<Str("alice"), Str("secret1")>>}

ListBodies ==
    {[filename |-> Str("bottle.jpg"), eco_points_earned |-> Num(10),
      items_recycled |-> Num(1), carbon_saved_kg |-> Num(5)],
     [filename |-> Str("box.jpg"), eco_points_earned |-> Num(6),
      items_recycled |-> Num(1), carbon_saved_kg |-> Num(2)]}

ListQueries ==
    {[NoQuery EXCEPT !.limit = l] :
        l \in {Undef, Str("0"), Str("1"), Str("2"), Str("-1")}}

ListInstants == {1, 2}

NextHistory ==
    \/ \E r \in Client, in \in ListRegisterInputs : RegisterStart(r, in[1], in[2])
    \/ \E r \in Client : RegisterHashed(r, "saltA")
    \/ \E r \in Client : RegisterInsert(r, FALSE)
    \/ \E r \in Client, b \in ListBodies : HistoryStart(r, Bearer(held), b)
    \/ \E r \in Client, dbErr \in BOOLEAN : HistoryInsert(r, dbErr)
    \/ \E r \in Client, u \in {"alice", "bob"}, q \in ListQueries,
          rank \in HistoryRanks(history), dbErr \in BOOLEAN :
          handleGetUserHistory(r, u, q, rank, dbErr)
    \/ \E r \in Client, keep \in BOOLEAN : Finish(r, keep)
    \/ \E t \in ListInstants : Tick(t)

SpecHistory == Init /\ [][NextHistory]_vars

(***************************************************************************)
(* SpecValidate: registrations with bodies of every kind the validation    *)
(* tells apart, on two connections.                                        *)
(***************************************************************************)
ValidateRegisterInputs ==
    {<<Str("alice"), Str("secret1")>>,   \* valid
     <<Str("bob"), Str("hunter")>>,      \* valid, at the two lower limits
     <<Undef, Str("secret1")>>,          \* no username
     <<Str("alice"), Undef>>,            \* no password
     <<Str(""), Str("secret1")>>,        \* empty username
     <<Str("al"), Str("secret1")>>,      \* username of 2 characters
     <<Str("alice"), Str("secre")>>}     \* password of 5 characters

NextValidate ==
    \/ \E r \in Slots, in \in ValidateRegisterInputs : RegisterStart(r, in[1], in[2])
    \/ \E r \in Slots, salt \in Salts : RegisterHashed(r, salt)
    \/ \E r \in Slots, dbErr \in BOOLEAN : RegisterInsert(r, dbErr)
    \/ \E r \in Slots, keep \in BOOLEAN : Finish(r, keep)

SpecValidate == Init /\ [][NextValidate]_vars

(***************************************************************************)
(* SpecWrite: the two writing endpoints and the login, with every way a    *)
(* write can fail, on two connections.                                     *)
(***************************************************************************)
WriteRegisterInputs ==
    {<<Str("alice"), Str("secret1")>>, <<Str("alice"), Str("hunter22")>>,
     <<Str("al"), Str("secret1")>>}

WriteLoginInputs ==
    {<<Str("alice"), Str("secret1")>>, <<Str("alice"), Str("hunter22")>>}

WriteAuthInputs ==
    {NoHeader, Bearer(MalformedToken)}
        \cup (IF held.wellformed THEN {Bearer(held)} ELSE {})

NextWrite ==
    \/ \E r \in Slots, in \in WriteRegisterInputs : RegisterStart(r, in[1], in[2])
    \/ \E r \in Slots : RegisterHashed(r, "saltA")
    \/ \E r \in Slots, dbErr \in BOOLEAN : RegisterInsert(r, dbErr)
    \/ \E r \in Slots, in \in WriteLoginInputs : LoginStart(r, in[1], in[2])
    \/ \E r \in Slots : LoginGet(r, FALSE)
    \/ \E r \in Slots : LoginCompare(r)
    \/ \E r \in Slots, h \in WriteAuthInputs, b \in SeedBodies : HistoryStart(r, h, b)
    \/ \E r \in Slots, dbErr \in BOOLEAN : HistoryInsert(r, dbErr)
    \/ \E r \in Slots, keep \in BOOLEAN : Finish(r, keep)

SpecWrite == Init /\ [][NextWrite]_vars

(***************************************************************************)
(* SpecCase: registrations of usernames that differ in letter case only,   *)
(* on two connections.                                                     *)
(***************************************************************************)
CaseRegisterInputs ==
    {<<Str("alice"), Str("secret1")>>, <<Str("Alice"), Str("secret1")>>,
     <<Str("ALICE"), Str("hunter22")>>, <<Str("bob"), Str("hunter22")>>}

NextCase ==
    \/ \E r \in Slots, in \in CaseRegisterInputs : RegisterStart(r, in[1], in[2])
    \/ \E r \in Slots : RegisterHashed(r, "saltA")
    \/ \E r \in Slots, dbErr \in BOOLEAN : RegisterInsert(r, dbErr)
    \/ \E r \in Slots, keep \in BOOLEAN : Finish(r, keep)

SpecCase == Init /\ [][NextCase]_vars

(***************************************************************************)
(* SpecRound: tokens issued by registrations and logins and presented to   *)
(* GET /api/me, on two connections.  The JSON body of a registration or a  *)
(* login carries the username as a text or as a number.                    *)
(***************************************************************************)
RoundRegisterInputs ==
    {<<Str("alice"), Str("secret1")>>, <<Num(123456), Str("secret1")>>}

RoundLoginInputs ==
    {<<Str("alice"), Str("secret1")>>, <<Str("123456"), Str("secret1")>>,
     <<Num(123456), Str("secret1")>>}

RoundInstants == {ExpiresIn}

NextRound ==
    \/ \E r \in Slots, in \in RoundRegisterInputs : RegisterStart(r, in[1], in[2])
    \/ \E r \in Slots : RegisterHashed(r, "saltA")
    \/ \E r \in Slots : RegisterInsert(r, FALSE)
    \/ \E r \in Slots, in \in RoundLoginInputs : LoginStart(r, in[1], in[2])
    \/ \E r \in Slots : LoginGet(r, FALSE)
    \/ \E r \in Slots : LoginCompare(r)
    \/ \E r \in Slots : Me(r, Bearer(held))
    \/ \E r \in Slots, keep \in BOOLEAN : Finish(r, keep)
    \/ \E t \in RoundInstants : Tick(t)

SpecRound == Init /\ [][NextRound]_vars

(***************************************************************************)
(* SpecStateless: two connections present tokens to GET /api/me while      *)
(* accounts are registered, logins answered and events appended.           *)
(***************************************************************************)
StatelessRegisterInputs ==
    {<<Str("alice"), Str("secret1")>>, <<Str("bob"), Str("hunter22")>>}

StatelessLoginInputs == {<<Str("alice"), Str("secret1")>>}

StatelessBodies ==
    {[filename |-> Str("bottle.jpg"), eco_points_earned |-> Num(10),
      items_recycled |-> Num(1), carbon_saved_kg |-> Num(5)]}

NextStateless ==
    \/ \E r \in Slots, in \in StatelessRegisterInputs : RegisterStart(r, in[1], in[2])
    \/ \E r \in Slots : RegisterHashed(r, "saltA")
    \/ \E r \in Slots : RegisterInsert(r, FALSE)
    \/ \E r \in Slots, in \in StatelessLoginInputs : LoginStart(r, in[1], in[2])
    \/ \E r \in Slots : LoginGet(r, FALSE)
    \/ \E r \in Slots : LoginCompare(r)
    \/ \E r \in Slots, h \in AuthInputs : Me(r, h)
    \/ \E r \in Slots, b \in StatelessBodies : held.wellformed /\ HistoryStart(r, Bearer(held), b)
    \/ \E r \in Slots : HistoryInsert(r, FALSE)
    \/ \E r \in Slots, keep \in BOOLEAN : Finish(r, keep)
    \/ Tick(ExpiresIn)

SpecStateless == Init /\ [][NextStateless]_vars

(***************************************************************************)
(* SpecAppend: two accounts; each connection, once the accounts exist,     *)
(* sends one POST /api/history with the token of either account, and the   *)
(* two requests run concurrently.                                          *)
(***************************************************************************)
\* The tokens the registrations answered with.
RegistrationTokens ==
    {JwtSign([id |-> u.id, username |-> Str(u.username)], JWT_SECRET, u.created_at) :
        u \in Range(users)}

NextAppend ==
    \/ \E r \in Slots, in \in StatelessRegisterInputs : RegisterStart(r, in[1], in[2])
    \/ \E r \in Slots : RegisterHashed(r, "saltA")
    \/ \E r \in Slots : RegisterInsert(r, FALSE)
    \/ \E r \in Slots : req[r].op = "register" /\ Finish(r, FALSE)
    \/ \E r \in Slots, tok \in RegistrationTokens, b \in HistoryBodies :
          HistoryStart(r, Bearer(tok), b)
    \/ \E r \in Slots, dbErr \in BOOLEAN : HistoryInsert(r, dbErr)

SpecAppend == Init /\ [][NextAppend]_vars

(***************************************************************************)
(* SpecTypes: request bodies whose fields have the wrong JSON type, on two *)
(* concurrent connections.                                                 *)
(***************************************************************************)
TypesRegisterInputs ==
    {<<Str("alice"), Str("secret1")>>, <<Str("bob"), Num(12345678)>>,
     <<Num(123456), Str("secret1")>>, <<Str("al"), Str("secret1")>>}

TypesLoginInputs ==
    {<<Str("alice"), Str("secret1")>>, <<Str("alice"), Num(12345678)>>,
     <<Str("carol"), Num(12345678)>>, <<Undef, Str("secret1")>>}

NextTypes ==
    \/ \E r \in Slots, in \in TypesRegisterInputs : RegisterStart(r, in[1], in[2])
    \/ \E r \in Slots : RegisterHashed(r, "saltA")
    \/ \E r \in Slots : RegisterHashRejected(r)
    \/ \E r \in Slots, dbErr \in BOOLEAN : RegisterInsert(r, dbErr)
    \/ \E r \in Slots, in \in TypesLoginInputs : LoginStart(r, in[1], in[2])
    \/ \E r \in Slots, dbErr \in BOOLEAN : LoginGet(r, dbErr)
    \/ \E r \in Slots : LoginCompare(r)
    \/ \E r \in Slots, crash \in BOOLEAN : LoginCompareRejected(r, crash)
    \/ \E r \in Slots, h \in AuthInputs : Me(r, h)
    \/ \E r \in Slots, h \in AuthInputs, b \in HistoryBodies : HistoryStart(r, h, b)
    \/ \E r \in Slots, dbErr \in BOOLEAN : HistoryInsert(r, dbErr)
    \/ \E r \in Slots, keep \in BOOLEAN : Finish(r, keep)

SpecTypes == Init /\ [][NextTypes]_vars

(***************************************************************************)
(* SpecOwner: two accounts; the client appends events with the token it    *)
(* holds, or with a forged one, and names a user in the body.              *)
(***************************************************************************)
OwnerBodies ==
    {[username |-> Str("bob"), filename |-> Str("for-bob.jpg"),
      eco_points_earned |-> Num(10), items_recycled |-> Num(1), carbon_saved_kg |-> Num(5)],
     [username |-> Str("alice"), filename |-> Str("for-alice.jpg"),
      eco_points_earned |-> Num(7), items_recycled |-> Num(2), carbon_saved_kg |-> Num(3)],
     [username |-> Undef, filename |-> Undef,
      eco_points_earned |-> Undef, items_recycled |-> Undef, carbon_saved_kg |-> Undef]}

NextOwner ==
    \/ \E r \in Slots, in \in StatelessRegisterInputs : RegisterStart(r, in[1], in[2])
    \/ \E r \in Slots : RegisterHashed(r, "saltA")
    \/ \E r \in Slots : RegisterInsert(r, FALSE)
    \/ \E r \in Slots, h \in AuthInputs, b \in OwnerBodies : HistoryStart(r, h, b)
    \/ \E r \in Slots, dbErr \in BOOLEAN : HistoryInsert(r, dbErr)
    \/ \E r \in Slots, keep \in BOOLEAN : Finish(r, keep)

SpecOwner == Init /\ [][NextOwner]_vars

(***************************************************************************)
(* SpecAnswer: register and login requests on two connections, with        *)
(* passwords that are strings or numbers.  node's event loop runs every    *)
(* callback that is ready, and bcrypt and the database complete every      *)
(* call: the pending step of each request is eventually taken.             *)
(***************************************************************************)
AnswerRegisterInputs ==
    {<<Str("alice"), Str("secret1")>>, <<Str("bob"), Num(12345678)>>}

AnswerLoginInputs ==
    {<<Str("alice"), Str("secret1")>>, <<Str("alice"), Num(12345678)>>}

\* The pending step of the handler serving connection r.
Serve(r) ==
    \/ RegisterHashed(r, "saltA")
    \/ RegisterHashRejected(r)
    \/ \E dbErr \in BOOLEAN : RegisterInsert(r, dbErr)
    \/ \E dbErr \in BOOLEAN : LoginGet(r, dbErr)
    \/ LoginCompare(r)
    \/ \E crash \in BOOLEAN : LoginCompareRejected(r, crash)

NextAnswer ==
    \/ \E r \in Slots, in \in AnswerRegisterInputs : RegisterStart(r, in[1], in[2])
    \/ \E r \in Slots, in \in AnswerLoginInputs : LoginStart(r, in[1], in[2])
    \/ \E r \in Slots : Serve(r)
    \/ \E r \in Slots : Finish(r, FALSE)

SpecAnswer ==
    Init /\ [][NextAnswer]_vars /\ \A r \in Slots : WF_vars(Serve(r))

(***************************************************************************)
(* SpecTop: the leaderboard over n registered users, n around the          *)
(* leaderboard's limit, of whom the first has no event, every third has    *)
(* two events and the others one.                                          *)
(***************************************************************************)
\* The users with a second event, in the order of their ids.
TopTwice(n) == SelectSeq([i \in 1..n |-> i], LAMBDA i : i > 1 /\ i % 3 = 0)

TopHistory(n, step) ==
    [k \in 1..(n - 1) |->
        HistoryRow(k, [username |-> BoardName(k + 1), filename |-> "unknown",
                       eco_points_earned |-> ((k + 1) * step) % 7,
                       items_recycled |-> 1, carbon_saved_kg |-> 2], 0)]
    \o [k \in 1..Len(TopTwice(n)) |->
        HistoryRow(n - 1 + k, [username |-> BoardName(TopTwice(n)[k]), filename |-> "unknown",
                               eco_points_earned |-> 7 + (TopTwice(n)[k] % 5),
                               items_recycled |-> 3, carbon_saved_kg |-> 1], 0)]

InitTop ==
    \E n \in (LeaderboardLimit - 1)..MaxBoardUsers, step \in 0..3 :
        /\ users = BoardUsers(n)
        /\ history = TopHistory(n, step)
        /\ now = 0
        /\ req = [r \in Slots |-> Idle]
        /\ held = NoToken
        /\ registered = {<<BoardName(i), "secret1">> : i \in 1..n}
        /\ dbfile = ServerDb
        /\ script = NoScript

SpecTop == InitTop /\ [][NextBoard]_vars

(***************************************************************************)
(* SpecMigrate: the migration script run up to MaxRuns times, one run      *)
(* after the other, in either of its two forms, on a database file that    *)
(* may be missing, may lack the history table, or has the table with any   *)
(* subset of the three columns.                                            *)
(***************************************************************************)
InitMigrate ==
    \E e \in BOOLEAN, t \in BOOLEAN, cols \in SUBSET Range(colsToAdd) :
        /\ t => e
        /\ ~t => cols = {}
        /\ users = <<>>
        /\ history = <<>>
        /\ now = 0
        /\ req = [r \in Slots |-> Idle]
        /\ held = NoToken
        /\ registered = {}
        /\ dbfile = [exists |-> e, history |-> t, columns |-> cols, backups |-> 0]
        /\ script = NoScript

NextMigrate ==
    \/ MainStart
    \/ MainFileExists
    \/ \E fail \in BOOLEAN : MainBackupDb(fail)
    \/ \E dbErr \in BOOLEAN : MainTableExists(dbErr)
    \/ \E dbErr \in BOOLEAN : MainColumnExists(dbErr)
    \/ \E dbErr \in BOOLEAN : MainAlter(dbErr)
    \/ \E dbErr \in BOOLEAN : MainVerify(dbErr)
    \/ RunStart
    \/ \E dbErr \in BOOLEAN : RunOpen(dbErr)
    \/ \E dbErr \in BOOLEAN : RunColumnExists(dbErr)
    \/ \E dbErr \in BOOLEAN : RunAlter(dbErr)

SpecMigrate == InitMigrate /\ [][NextMigrate]_vars

(***************************************************************************)
(* Properties.                                                             *)
(***************************************************************************)
Done(r, op) == req[r].op = op /\ req[r].pc = "done"

Status(r) == req[r].resp.status

\* The rows of users that hold username.
RowsNamed(username) == {i \in 1..Len(users) : users[i].username = username}

\* A registration that passed validation and whose INSERT the store ran.
RegisterAnswered(r) ==
    /\ Done(r, "register")
    /\ ~RegisterInvalid(req[r].username, req[r].password)
    /\ Status(r) # 500

\* C1: of two concurrent registrations with the same valid username (and no
\* storage failure), exactly one is answered with success (a token and the
\* user) and the other with 409, and users holds exactly one row for the
\* username.
C1_OneWinner ==
    \A r1, r2 \in Slots :
        (/\ r1 # r2
         /\ RegisterAnswered(r1)
         /\ RegisterAnswered(r2)
         /\ req[r1].username = req[r2].username)
        => /\ {Status(r1), Status(r2)} = {200, 409}
           /\ Cardinality(RowsNamed(req[r1].username.s)) = 1
           /\ \A r \in {r1, r2} :
                 Status(r) = 200 =>
                    /\ req[r].resp.token.wellformed
                    /\ req[r].resp.user.username = req[r].username
                    /\ req[r].resp.user.id = users[CHOOSE i \in RowsNamed(req[r].username.s) : TRUE].id

C1_Witness ==
    \E r1, r2 \in Slots :
        /\ r1 # r2
        /\ RegisterAnswered(r1)
        /\ RegisterAnswered(r2)
        /\ req[r1].username = req[r2].username
        /\ req[r1].password # req[r2].password
        /\ Status(r1) = 200
        /\ Status(r2) = 409

\* The request on r carries a token that the server signed.
CarriesIssuedToken(r) ==
    /\ req[r].op \in {"me", "history"}
    /\ req[r].auth.present
    /\ req[r].auth.scheme = "Bearer"
    /\ req[r].auth.token.wellformed
    /\ req[r].auth.token.sig = JWT_SECRET

\* authenticate answered the request on r with 401.
Rejected(r) == req[r].pc = "done" /\ Status(r) = 401

\* C2 as claimed: a token issued at t is accepted at every instant up to and
\* including its expiry instant t + 7 days, and rejected at every later one.
C2_AcceptedThroughExpiry ==
    \A r \in Slots :
        CarriesIssuedToken(r) =>
            (~Rejected(r) <=> req[r].at <= req[r].auth.token.iat + ExpiresIn)

\* C2 amended: a token issued at t expires at t + 7 days; it is accepted at
\* every instant before its expiry instant and rejected (401) at the expiry
\* instant and at every later one.
C2_AcceptedBeforeExpiry ==
    /\ \A r \in Slots :
          req[r].resp.token.wellformed =>
             /\ req[r].resp.token.exp = req[r].resp.token.iat + ExpiresIn
             /\ req[r].at <= req[r].resp.token.iat
             /\ req[r].resp.token.iat <= now
    /\ \A r \in Slots :
          CarriesIssuedToken(r) =>
             /\ req[r].auth.token.exp = req[r].auth.token.iat + ExpiresIn
             /\ ~Rejected(r) <=> req[r].at < req[r].auth.token.iat + ExpiresIn

C2_Witness ==
    \E r \in Slots :
        /\ Done(r, "me")
        /\ CarriesIssuedToken(r)
        /\ req[r].at = req[r].auth.token.iat + ExpiresIn - 1
        /\ Status(r) = 200

\* The usernames that are registered.
RegisteredNames == {c[1] : c \in registered}

FailedLogin(r) ==
    /\ Done(r, "login")
    /\ Truthy(req[r].username)
    /\ Truthy(req[r].password)
    /\ Status(r) # 500
    /\ <<req[r].username.s, req[r].password.s>> \notin registered

ZeroSummary == [eco_points |-> 0, items_recycled |-> 0, carbon_saved_kg |-> 0]

\* The summary agg with the event ev added to it.
Plus(agg, ev) ==
    [eco_points |-> agg.eco_points + ev.eco_points_earned,
     items_recycled |-> agg.items_recycled + ev.items_recycled,
     carbon_saved_kg |-> agg.carbon_saved_kg + ev.carbon_saved_kg]

\* The connections whose POST /api/history this step answers with success.
Appending == {r \in Slots : /\ req[r].op = "history"
                            /\ req[r].pc = "insert"
                            /\ req'[r].pc = "done"
                            /\ req'[r].resp.status = 200}

\* C5: a user's summary is the element-wise sum of the events appended for
\* that username: it is zero at the start, a successful append adds the
\* event's three values to the summary of the event's username and leaves
\* every other summary alone (so a zero-valued event changes no summary), no
\* other step changes a summary, and the profile reports that summary.  (A
\* summary is a query over the history table alone, so a step that answers
\* no append and leaves the table as it was has changed no summary.)
C5_SummaryIsSum ==
    /\ \A u \in ProfileInputs : getUserAggregates(u) = ZeroSummary
    /\ [][/\ \/ (Appending = {} /\ history' = history)
             \/ \A u \in ProfileInputs :
                  LET before == getUserAggregates(u)
                      after == getUserAggregates(u)'
                  IN IF Appending = {}
                     THEN after = before
                     ELSE \A r \in Appending :
                            after = IF u = req[r].ev.username
                                    THEN Plus(before, req[r].ev)
                                    ELSE before
          /\ \A r \in Slots :
               (/\ req[r].op = "profile"
                /\ req[r].pc = "aggregates"
                /\ req'[r].pc = "done"
                /\ req'[r].resp.status = 200)
               => LET out == req'[r].resp.data[1]
                  IN [eco_points |-> out.eco_points,
                      items_recycled |-> out.items_recycled,
                      carbon_saved_kg |-> out.carbon_saved_kg]
                        = getUserAggregates(req[r].username.s)
         ]_vars

\* Two events appended for alice, one of them zero-valued, and the profile
\* reporting the other's values.
C5_Witness ==
    /\ Len(history) = 2
    /\ \A i \in 1..2 : history[i].username = "alice"
    /\ \E i \in 1..2 : /\ history[i].eco_points_earned = 0
                        /\ history[i].items_recycled = 0
                        /\ history[i].carbon_saved_kg = 0
    /\ \E r \in Slots :
          /\ Done(r, "profile")
          /\ Status(r) = 200
          /\ req[r].resp.data[1].username = "alice"
          /\ req[r].resp.data[1].eco_points = 10
          /\ req[r].resp.data[1].items_recycled = 1
          /\ req[r].resp.data[1].carbon_saved_kg = 5

\* C6: a leaderboard response holds at most 25 entries, ordered by
\* eco_points non-increasing.
C6_BoardBoundedSorted ==
    \A r \in Slots :
        (Done(r, "leaderboard") /\ Status(r) = 200)
        => LET rows == req[r].resp.data
           IN /\ Len(rows) <= 25
              /\ \A i, j \in 1..Len(rows) :
                    i < j => rows[i].eco_points >= rows[j].eco_points

\* More than 25 usernames have events, with different totals, and the
\* response holds 25.
C6_Witness ==
    /\ Cardinality({h.username : h \in Range(history)}) > 25
    /\ \E r \in Slots :
          /\ Done(r, "leaderboard")
          /\ Status(r) = 200
          /\ Len(req[r].resp.data) = 25
          /\ req[r].resp.data[1].eco_points > req[r].resp.data[25].eco_points

\* C7 as claimed: every 401 of a token-protected endpoint is the same
\* response, status and body, whatever made authenticate refuse.
C7_Uniform401 ==
    \A r1, r2 \in Slots :
        (/\ req[r1].op \in {"me", "history"}
         /\ req[r2].op \in {"me", "history"}
         /\ Rejected(r1)
         /\ Rejected(r2))
        => req[r1].resp = req[r2].resp

\* C8 as claimed: every aggregate value is non-negative, in each user's
\* summary and in each leaderboard entry.
C8_NonNegativeAggregates ==
    /\ \A u \in ProfileInputs :
          /\ getUserAggregates(u).eco_points >= 0
          /\ getUserAggregates(u).items_recycled >= 0
          /\ getUserAggregates(u).carbon_saved_kg >= 0
    /\ \A rank \in Ranks(history) :
          \A i \in 1..Len(LeaderboardRows(history, rank)) :
             /\ LeaderboardRows(history, rank)[i].eco_points >= 0
             /\ LeaderboardRows(history, rank)[i].items_recycled >= 0
             /\ LeaderboardRows(history, rank)[i].carbon_saved_kg >= 0

\* The header carries a token of the server's that has not expired at t.
ValidCredential(header, t) ==
    /\ header.present
    /\ header.scheme = "Bearer"
    /\ header.token.wellformed
    /\ header.token.sig = JWT_SECRET
    /\ t < header.token.exp

\* C9: a request to GET /api/me or POST /api/history with no Authorization
\* header, a non-Bearer header, a malformed token, a token with a bad
\* signature or an expired token is answered 401 on arrival, carries no
\* user or data, does not reach the handler (no INSERT is handed to the
\* database) and leaves users and history unchanged.
C9_FailClosed ==
    [][\A r \in Slots :
        (/\ req[r].op = "idle"
         /\ req'[r].op \in {"me", "history"}
         /\ ~ValidCredential(req'[r].auth, now))
        => /\ req'[r].pc = "done"
           /\ req'[r].resp.status = 401
           /\ req'[r].resp.user = NoUser
           /\ req'[r].resp.data = <<>>
           /\ users' = users
           /\ history' = history
      ]_vars

\* An append refused because the token of a registered user has expired.
C9_Witness ==
    \E r \in Slots :
        /\ Done(r, "history")
        /\ CarriesIssuedToken(r)
        /\ SqlText(req[r].auth.token.username) \in RegisteredNames
        /\ req[r].at >= req[r].auth.token.exp
        /\ Status(r) = 401
        /\ history = <<>>

\* s is a prefix of t.
IsPrefix(s, t) == Len(s) <= Len(t) /\ SubSeq(t, 1, Len(s)) = s

\* C10: persisted state only grows: every step leaves each existing user row
\* and each existing history event in place with the same field values.
C10_AppendOnly ==
    [][IsPrefix(users, users') /\ IsPrefix(history, history')]_vars

\* Both tables have grown, and requests were answered after that.
C10_Witness ==
    /\ Len(users) = 2
    /\ Len(history) = 2
    /\ \E r \in Slots : Done(r, "register") /\ Status(r) = 409

\* C11 as claimed: every history event references a username that existed
\* in the users table when the event was inserted (rows are never deleted,
\* so: the username of every history row is the username of a user row),
\* for the events of POST /api/history and for those of the seed script.
C11_EventsReferenceUsers ==
    \A i \in 1..Len(history) :
        \E j \in 1..Len(users) : users[j].username = history[i].username

AdminOps == {"adminUsers", "adminUser", "adminExport"}

\* The request presents the admin secret in one of its two transports.
PresentsSecret(query) ==
    \/ query.x_admin_secret = Str(ADMIN_SECRET)
    \/ query.admin_secret = Str(ADMIN_SECRET)

\* C12: a request to GET /admin/users, GET /admin/user/:id or GET
\* /admin/export/users.csv that does not present the admin secret is
\* answered 401 and carries no user data, whatever its Authorization header
\* carries (a valid, unexpired session token included).
C12_AdminNeedsSecret ==
    \A r \in Slots :
        (req[r].op \in AdminOps /\ ~PresentsSecret(req[r].query))
        => /\ req[r].pc = "done"
           /\ Status(r) = 401
           /\ req[r].resp.user = NoUser
           /\ req[r].resp.data = <<>>

\* An admin endpoint has refused a request that carried the valid,
\* unexpired session token of a registered user and no admin secret.
C12_Witness ==
    /\ users # <<>>
    /\ \E r \in Slots :
          /\ req[r].op \in AdminOps
          /\ req[r].pc = "done"
          /\ req[r].query.x_admin_secret = Undef
          /\ req[r].query.admin_secret = Undef
          /\ req[r].auth.present
          /\ ValidCredential(req[r].auth, req[r].at)
          /\ SqlText(req[r].auth.token.username) \in RegisteredNames
          /\ Status(r) = 401

\* C13 as claimed: a request that presents the correct admin secret in the
\* x-admin-secret header or in the admin_secret query parameter is
\* authorized (not answered 401), whatever the other transport carries.
C13_EitherTransport ==
    \A r \in Slots :
        (req[r].op \in AdminOps /\ req[r].pc = "done" /\ PresentsSecret(req[r].query))
        => Status(r) # 401

\* s occurs in u.
Contains(u, s) == \E i \in 0..(Len(u) - Len(s)) : SubSeq(u, i + 1, i + Len(s)) = s

\* C14 as claimed: GET /admin/users with the correct secret answers with
\* the users whose username contains `search` (all users when there is
\* none), most recent id first, without the first `offset` of them and cut
\* to `limit` rows, limit being 100 and offset 0 when not supplied, for
\* every supplied limit and offset from 0 on.
C14_HonorsParameters ==
    \A r \in Slots :
        (Done(r, "adminUsers") /\ Status(r) = 200)
        => LET q == req[r].query
               limit == IF q.limit = Undef THEN 100 ELSE ParseInt(q.limit).n
               offset == IF q.offset = Undef THEN 0 ELSE ParseInt(q.offset).n
               search == IF q.search = Undef THEN "" ELSE Trim(q.search.s)
               found == Reverse(SelectSeq(users, LAMBDA u : Contains(u.username, search)))
               last == IF offset + limit < Len(found) THEN offset + limit ELSE Len(found)
               expected == SubSeq(found, offset + 1, last)
           IN (limit >= 0 /\ offset >= 0)
              => /\ Len(req[r].resp.data) <= limit
                 /\ Len(req[r].resp.data) = Len(expected)
                 /\ \A i \in 1..Len(expected) :
                       req[r].resp.data[i].id = expected[i].id

\* C15 as claimed: the history listing holds at most `limit` events for
\* every integer limit the caller supplies (none for a limit of 0 or
\* below), and at most 50 when no limit is supplied.
C15_ListingWithinLimit ==
    \A r \in Slots :
        (Done(r, "userHistory") /\ Status(r) = 200)
        => LET supplied == ParseInt(req[r].query.limit)
               limit == IF req[r].query.limit = Undef THEN 50
                        ELSE IF supplied.n < 0 THEN 0 ELSE supplied.n
           IN Len(req[r].resp.data) <= limit

\* The events of username, the last appended first.
LastAppendedFirst(username) ==
    LET rows == Reverse(SelectSeq(history, LAMBDA h : h.username = username))
    IN [i \in 1..Len(rows) |-> HistoryColumns(rows[i])]

\* C16 as claimed: the history listing is ordered most recent first: the
\* events it returns come in the reverse of the order in which they were
\* appended, also when two were appended within one second.
C16_MostRecentFirst ==
    \A r \in Slots :
        (Done(r, "userHistory") /\ Status(r) = 200)
        => IsPrefix(req[r].resp.data, LastAppendedFirst(req[r].username.s))

\* The value is absent from the body.
Missing(v) == v = Undef

\* The value is a text of fewer than k characters.
ShorterThan(v, k) == v.t = "string" /\ Len(v.s) < k

\* C17: a POST /api/register whose username or password is missing, whose
\* username has fewer than 3 characters or whose password has fewer than 6
\* is answered 400 on arrival, before any hash is computed and before any
\* INSERT, and creates no user: the users table is unchanged and never holds
\* a username of fewer than 3 characters.
C17_RejectedBeforeHashing ==
    [][/\ \A r \in Slots :
            (/\ req[r].op = "idle"
             /\ req'[r].op = "register"
             /\ \/ Missing(req'[r].username)
                \/ Missing(req'[r].password)
                \/ ShorterThan(req'[r].username, 3)
                \/ ShorterThan(req'[r].password, 6))
            => /\ req'[r].pc = "done"
               /\ req'[r].resp.status = 400
               /\ req'[r].resp.token = NoToken
               /\ req'[r].hash = NoHash
               /\ users' = users
       /\ \A i \in 1..Len(users') : Len(users'[i].username) >= 3
      ]_vars

\* A registration without password and one with a username of two
\* characters were both answered 400, beside a user row that a valid
\* registration created.
C17_Witness ==
    /\ Len(users) = 1
    /\ \E r1, r2 \in Slots :
          /\ Done(r1, "register")
          /\ req[r1].password = Undef
          /\ Status(r1) = 400
          /\ Done(r2, "register")
          /\ req[r2].username = Str("al")
          /\ Status(r2) = 400

\* This step answers the request on r, of kind op, with one of the statuses.
Answers(r, op, statuses) ==
    /\ req[r].op = op
    /\ req[r].pc # "done"
    /\ req'[r].pc = "done"
    /\ req'[r].resp.status \in statuses

\* C18: a write answered with an error leaves state unchanged: the step
\* that answers a registration 400, 409 or 500, or a history append 401 or
\* 500, leaves the users and history tables as they were; after a 409 the
\* row of that username still verifies the password it was registered with
\* and not the refused one (unless they are the same), and a login succeeds
\* exactly with the password of the successful registration.
C18_FailedWriteChangesNothing ==
    [][\A r \in Slots :
        /\ (\/ (req[r].op = "idle" /\ req'[r].op = "register" /\ req'[r].resp.status = 400)
            \/ Answers(r, "register", {409, 500})
            \/ (req[r].op = "idle" /\ req'[r].op = "history" /\ req'[r].resp.status = 401)
            \/ Answers(r, "history", {500}))
           => (users' = users /\ history' = history)
        /\ Answers(r, "register", {409})
           => LET row == users'[CHOOSE i \in 1..Len(users') :
                                  users'[i].username = req[r].username.s]
              IN \A p \in {"secret1", "hunter22"} :
                    BcryptCompare(p, row.password_hash)
                       <=> <<req[r].username.s, p>> \in registered
        /\ (req[r].op = "login" /\ req[r].pc = "compare" /\ req'[r].pc = "done")
           => (req'[r].resp.status = 200
                  <=> <<req[r].username.s, req[r].password.s>> \in registered)
      ]_vars

\* alice is registered with one password; a registration of alice with the
\* other password was answered 409 and a login with that other password
\* 401.
C18_Witness ==
    /\ registered = {<<"alice", "secret1">>}
    /\ Len(users) = 1
    /\ \E r1, r2 \in Slots :
          /\ Done(r1, "register")
          /\ req[r1].password = Str("hunter22")
          /\ Status(r1) = 409
          /\ Done(r2, "login")
          /\ req[r2].password = Str("hunter22")
          /\ Status(r2) = 401

\* An append was answered 500 and the table still holds just the event
\* appended before it.
C18_AppendWitness ==
    /\ Len(history) = 1
    /\ \E r \in Slots : Done(r, "history") /\ Status(r) = 500

\* C19: usernames are case-sensitively unique: no two user rows have the
\* same username and no two the same id, and a registration is refused as a
\* duplicate (409) only when a row holds exactly its username, letter case
\* included, so usernames that differ in case only all register.
C19_CaseSensitiveUnique ==
    [][/\ \A i, j \in 1..Len(users') :
            i # j => /\ users'[i].username # users'[j].username
                     /\ users'[i].id # users'[j].id
       /\ \A r \in Slots :
            Answers(r, "register", {409})
            => \E i \in 1..Len(users) : users[i].username = req[r].username.s
       /\ \A r \in Slots :
            Answers(r, "register", {200})
            => /\ Len(users') = Len(users) + 1
               /\ users'[Len(users')].username = req[r].username.s
      ]_vars

\* alice, Alice and ALICE are three users with three ids.
C19_Witness ==
    /\ {users[i].username : i \in 1..Len(users)} = {"alice", "Alice", "ALICE"}
    /\ Cardinality({users[i].id : i \in 1..Len(users)}) = 3

\* The request on r was answered with a token.
Issued(r) == req[r].op \in {"register", "login"} /\ req[r].pc = "done" /\ Status(r) = 200

\* The users row with this id.
RowOfId(id) == users[CHOOSE i \in 1..Len(users) : users[i].id = id]

\* C20 as claimed: the token of a successful register or login carries
\* exactly the id and the username of the user row that was created or
\* matched; presented to GET /api/me before its expiry it is answered 200
\* with exactly that id and username; and the tokens that register and login
\* yield for one account carry the same id and username.
C20_RoundTrip ==
    /\ \A r \in Slots :
          Issued(r)
          => /\ \E i \in 1..Len(users) : users[i].id = req[r].resp.token.id
             /\ req[r].resp.token.username
                   = Str(RowOfId(req[r].resp.token.id).username)
    /\ \A r \in Slots :
          (Done(r, "me") /\ CarriesIssuedToken(r) /\ req[r].at < req[r].auth.token.exp)
          => /\ Status(r) = 200
             /\ \E i \in 1..Len(users) : users[i].id = req[r].resp.user.id
             /\ req[r].resp.user.username
                   = Str(RowOfId(req[r].resp.user.id).username)
    /\ \A r1, r2 \in Slots :
          (Issued(r1) /\ Issued(r2) /\ req[r1].resp.token.id = req[r2].resp.token.id)
          => req[r1].resp.token.username = req[r2].resp.token.username

\* The history rows recorded under username.
EventsNamed(username) == {i \in 1..Len(history) : history[i].username = username}

\* The three totals of a profile response.
SummaryOf(profile) ==
    [eco_points |-> profile.eco_points, items_recycled |-> profile.items_recycled,
     carbon_saved_kg |-> profile.carbon_saved_kg]

\* C21: GET /user/:username is answered 404 exactly when no users row has
\* that username (a failing storage call, answered 500, aside), and for a
\* user without any history event it is answered 200 with the zero summary,
\* never with a client error.
C21_ProfileOfUserWithoutEvents ==
    [][\A r \in Slots :
        /\ (req[r].op = "idle" /\ req'[r].op = "profile")
              => LET name == req'[r].username.s
                     answered == req'[r].pc = "done"
                 IN /\ RowsNamed(name) = {}
                         => answered /\ req'[r].resp.status \in {404, 500}
                    /\ RowsNamed(name) # {}
                         => ~(answered /\ req'[r].resp.status = 404)
        /\ (req[r].op = "profile" /\ req[r].pc = "aggregates" /\ req'[r].pc = "done"
              /\ EventsNamed(req[r].username.s) = {})
              => /\ req'[r].resp.status \in {200, 500}
                 /\ req'[r].resp.status = 200
                      => SummaryOf(req'[r].resp.data[1]) = ZeroSummary
                         /\ req'[r].resp.data[1].username = req[r].username.s
      ]_vars

\* A registered user without events has been answered 200 with the zero
\* summary while another user has events.
C21_Witness ==
    \E r \in Slots :
        /\ Done(r, "profile") /\ Status(r) = 200
        /\ RowsNamed(req[r].username.s) # {}
        /\ EventsNamed(req[r].username.s) = {}
        /\ history # <<>>
        /\ SummaryOf(req[r].resp.data[1]) = ZeroSummary

\* A profile request for a name without a users row has been answered 404
\* while the table holds other users.
C21_NotFoundWitness ==
    \E r \in Slots :
        /\ Done(r, "profile") /\ Status(r) = 404
        /\ RowsNamed(req[r].username.s) = {}
        /\ users # <<>>

\* C22: token verification is stateless: the answer a GET /api/me request
\* got is the answer authenticate gives for the same header and instant in
\* every later state of users and history, and two requests that presented
\* the same header at the same instant got the same outcome and the same
\* claims, whatever was registered, logged in or appended in between.
C22_Stateless ==
    /\ \A r \in Slots :
          Done(r, "me") =>
              LET a == authenticate(req[r].auth, req[r].at)
              IN /\ (Status(r) = 200) = (a.resp = NoResp)
                 /\ Status(r) # 200 => req[r].resp = a.resp
                 /\ Status(r) = 200 =>
                        req[r].resp.user = safeUser(a.user.id, a.user.username, <<>>)
    /\ \A r1, r2 \in Slots :
          (Done(r1, "me") /\ Done(r2, "me") /\ req[r1].auth = req[r2].auth
             /\ req[r1].at = req[r2].at)
          => req[r1].resp = req[r2].resp

\* The same issued token was presented on both connections at the same
\* instant and accepted, with a registration and an append in between: the
\* tables of the first answer are not those of the second.
C22_Witness ==
    /\ Done("c1", "me") /\ Done("c2", "me")
    /\ Status("c1") = 200 /\ Status("c2") = 200
    /\ req["c1"].auth = req["c2"].auth
    /\ req["c1"].at = req["c2"].at
    /\ Len(users) = 2 /\ history # <<>>
    /\ req["c1"].resp.user.id = 1

\* The connections whose append was answered with success.
Appended == {r \in Slots : Done(r, "history") /\ Status(r) = 200}

\* The sum of the events of the requests rs.
RECURSIVE TotalOf(_)
TotalOf(rs) ==
    IF rs = {} THEN ZeroSummary
    ELSE LET r == CHOOSE x \in rs : TRUE
         IN Plus(TotalOf(rs \ {r}), req[r].ev)

\* C23: concurrent appends lose no update: in every interleaving, each
\* POST /api/history answered with success has produced one history row of
\* its own, with the id it was answered and the values it sent; the ids of
\* two answered appends differ; the table holds one row per answered
\* append; and every user's summary is the sum of the events appended for
\* that user.
C23_NoLostAppend ==
    /\ \A r \in Appended :
          LET id == req[r].resp.data[1]
          IN /\ id \in 1..Len(history)
             /\ history[id] = HistoryRow(id, req[r].ev, req[r].at)
    /\ \A r1, r2 \in Appended :
          r1 # r2 => req[r1].resp.data[1] # req[r2].resp.data[1]
    /\ \A i, j \in 1..Len(history) : i # j => history[i].id # history[j].id
    /\ Len(history) = Cardinality(Appended)
    /\ \A u \in {"alice", "bob"} :
          getUserAggregates(u) = TotalOf({r \in Appended : req[r].ev.username = u})

\* Both connections appended for the same user and both were answered with
\* success, the INSERT of the second connection running first.
C23_Witness ==
    /\ Appended = Slots
    /\ req["c1"].ev.username = req["c2"].ev.username
    /\ req["c1"].ev.eco_points_earned = 10
    /\ req["c2"].ev.eco_points_earned = -3
    /\ req["c2"].resp.data[1] = 1

\* The same for two different users.
C23_TwoUsersWitness ==
    /\ Appended = Slots
    /\ req["c1"].ev.username = "alice"
    /\ req["c2"].ev.username = "bob"

\* A body field that is present but not a string.
WrongType(v) == v.t \notin {"string", "undefined"}

\* The body of a register or login request is invalid input.
InvalidBody(r) ==
    \/ WrongType(req[r].username)
    \/ WrongType(req[r].password)
    \/ ~Truthy(req[r].username)
    \/ ~Truthy(req[r].password)
    \/ req[r].op = "register" /\ RegisterInvalid(req[r].username, req[r].password)

\* C24 as claimed: every failure response (status 400 or above) is the JSON
\* body {error: string} and nothing else, with the status of its kind of
\* failure: 400 for invalid input and only for it, 401 for a request that
\* is not authenticated, 409 for a registration conflict, 404 or 500
\* otherwise.
C24_StructuredFailure ==
    \A r \in Slots :
        (req[r].pc = "done" /\ Status(r) >= 400) =>
            /\ req[r].resp.error # ""
            /\ req[r].resp = ErrorResp(Status(r), req[r].resp.error)
            /\ Status(r) \in {400, 401, 404, 409, 500}
            /\ req[r].op \in {"register", "login"}
                  => ((Status(r) = 400) <=> InvalidBody(r))
            /\ Status(r) = 401 => req[r].op \in {"login", "me", "history"}
            /\ Status(r) = 409 => req[r].op = "register"

\* C25 as claimed: bodies are validated into a strict shape at the boundary:
\* a register or login request whose username or password is present but
\* not a string is answered 400 on arrival (it never waits for a hash, a
\* lookup, a comparison or an insert), a POST /api/history whose numeric
\* fields are not non-negative numbers never reaches its INSERT, and no
\* history row holds a negative value.
C25_StrictShape ==
    /\ \A r \in Slots :
          (req[r].op \in {"register", "login"}
             /\ (WrongType(req[r].username) \/ WrongType(req[r].password)))
          => req[r].pc = "done" /\ Status(r) = 400
    /\ \A r \in Slots :
          req[r].op = "history"
          => /\ req[r].ev.eco_points_earned >= 0
             /\ req[r].ev.items_recycled >= 0
             /\ req[r].ev.carbon_saved_kg >= 0
    /\ \A i \in 1..Len(history) :
          /\ history[i].eco_points_earned >= 0
          /\ history[i].items_recycled >= 0
          /\ history[i].carbon_saved_kg >= 0

\* The history rows of username, in the order of the table.
EventsOf(table, username) == SelectSeq(table, LAMBDA h : h.username = username)

\* The request on r presented a token the server verified as username's.
VerifiedAs(r, username) ==
    /\ req[r].auth.present /\ req[r].auth.scheme = "Bearer"
    /\ JwtVerify(req[r].auth.token, JWT_SECRET, req[r].at) = "ok"
    /\ SqlText(req[r].auth.token.username) = username

\* C26: an event created by POST /api/history is recorded under the
\* username of the verified token, whatever username the body carries; so
\* the history rows of a user (and with them the user's summary and
\* listing) change only in the step that answers an append presented with
\* a verified token of that very user.
C26_RecordedUnderTokenUser ==
    [][/\ \A r \in Slots :
             (req[r].op = "history" /\ req[r].pc = "insert" /\ req'[r].pc = "done"
                /\ req'[r].resp.status = 200)
             => /\ Len(history') = Len(history) + 1
                /\ VerifiedAs(r, history'[Len(history')].username)
       /\ \A u \in {"alice", "bob"} :
             EventsOf(history', u) # EventsOf(history, u)
             => \E r \in Slots :
                    /\ req[r].op = "history" /\ req[r].pc = "insert"
                    /\ req'[r].pc = "done"
                    /\ VerifiedAs(r, u)
      ]_vars

\* With alice's token an event whose body named bob was recorded under
\* alice, and bob has no event.
C26_Witness ==
    /\ \E i \in 1..Len(history) :
          history[i].username = "alice" /\ history[i].filename = "for-bob.jpg"
    /\ RowsNamed("bob") # {}
    /\ EventsOf(history, "bob") = <<>>

\* C27 as claimed: every POST /api/register and POST /api/login is
\* eventually answered, whatever its body (a password that is not a string
\* included) and whatever the storage call and the hash or compare step
\* give.
C27_EventuallyAnswered ==
    \A r \in Slots :
        (req[r].op \in {"register", "login"}) ~> (req[r].pc = "done")

\* The usernames that have at least one event.
NamesWithEvents == {h.username : h \in Range(history)}

\* C28: the leaderboard is the top 25 of the per-username summaries: every
\* username is listed at most once and only if it has an event, an entry's
\* three totals are that username's summary, the list holds 25 entries or
\* every username with events, and no username left out has more
\* eco_points than a listed one.
C28_TopOfSummaries ==
    \A r \in Slots :
        (Done(r, "leaderboard") /\ Status(r) = 200)
        => LET rows == req[r].resp.data
               listed == {rows[i].username : i \in 1..Len(rows)}
           IN /\ \A i, j \in 1..Len(rows) : i # j => rows[i].username # rows[j].username
              /\ listed \subseteq NamesWithEvents
              /\ \A i \in 1..Len(rows) :
                    SummaryOf(rows[i]) = getUserAggregates(rows[i].username)
              /\ Len(rows) = IF Cardinality(NamesWithEvents) < 25
                              THEN Cardinality(NamesWithEvents) ELSE 25
              /\ \A u \in NamesWithEvents \ listed : \A i \in 1..Len(rows) :
                    getUserAggregates(u).eco_points <= rows[i].eco_points

\* 26 usernames have events and one registered user has none; the response
\* lists 25, among them a user with two events under the sum of both, and
\* leaves out a user with events.
C28_Witness ==
    \E r \in Slots :
        /\ Done(r, "leaderboard") /\ Status(r) = 200
        /\ Cardinality(NamesWithEvents) = 26
        /\ Len(users) = 27
        /\ Len(req[r].resp.data) = 25
        /\ \E i \in 1..25 :
              /\ Cardinality(EventsNamed(req[r].resp.data[i].username)) = 2
              /\ req[r].resp.data[i].items_recycled = 4
        /\ \E u \in NamesWithEvents :
              \A i \in 1..25 : req[r].resp.data[i].username # u

\* A run of the script has ended.
Exited == script.prog # "none" /\ script.pc = "exited"

\* Nothing around the run failed: the file and the table are there, no
\* statement failed, and (in the form that takes one) the backup was taken.
NothingFailed ==
    /\ tableExists
    /\ ~script.fault
    /\ script.prog = "main" => script.backup

\* C29: the migration is idempotent: a run that ends in success leaves all
\* three columns on the table; no ALTER TABLE is issued for a column the
\* table already has, and a run adds only columns that were missing when it
\* started; from any subset of the columns a run in which nothing fails
\* ends in success; and a run that follows a successful one finds all three
\* columns, alters nothing and, nothing failing, ends in success too.
C29_MigrationIdempotent ==
    /\ (Exited /\ script.code = 0) => dbfile.columns = Range(colsToAdd)
    /\ script.pc = "alter" => colsToAdd[script.i] \notin dbfile.columns
    /\ script.altered \cap script.start = {}
    /\ (Exited /\ NothingFailed) => script.code = 0
    /\ (script.runs >= 2 /\ script.prev = 0)
         => /\ script.start = Range(colsToAdd)
            /\ script.altered = {}
            /\ dbfile.columns = Range(colsToAdd)

\* A second run, following a run that ended in success, has altered nothing
\* and ended in success.
C29_Witness ==
    /\ Exited /\ script.code = 0
    /\ script.runs = 2 /\ script.prev = 0
    /\ script.altered = {}

\* A run of the backend script that found only items_recycled has added the
\* two other columns.
C29_SubsetWitness ==
    /\ Exited /\ script.code = 0 /\ script.prog = "main"
    /\ script.start = {"items_recycled"}
    /\ script.altered = {"eco_points_earned", "carbon_saved_kg"}

\* C30: in migrate_history_columns.js (the backend script) no ALTER TABLE
\* is issued before the backup copy has completed: whenever the script is
\* about to alter, or has altered, the backup of this run was taken; and
\* when the database file is missing, the backup fails or the history
\* table does not exist, the script ends with exit code 1 and has altered
\* nothing.
C30_BackupBeforeAlter ==
    /\ [](script.prog = "main" =>
            /\ (script.pc = "alter" \/ script.altered # {})
                  => script.backup /\ dbfile.backups >= 1
            /\ (Exited /\ (~fileExists \/ ~script.backup \/ ~tableExists))
                  => /\ script.code = 1
                     /\ script.altered = {}
                     /\ dbfile.columns = script.start)
    /\ [][(script.prog = "main" /\ dbfile'.columns # dbfile.columns)
            => script.backup /\ dbfile'.backups = dbfile.backups /\ dbfile.backups >= 1]_vars

\* The backend script has taken its backup, added a column and ended in
\* success.
C30_Witness ==
    /\ Exited /\ script.prog = "main" /\ script.code = 0
    /\ script.backup /\ dbfile.backups >= 1
    /\ script.altered # {}

\* The backup of the backend script failed on a table that lacks columns:
\* exit code 1, nothing altered.
C30_FailedBackupWitness ==
    /\ Exited /\ script.prog = "main" /\ script.code = 1
    /\ tableExists /\ ~script.backup
    /\ dbfile.columns = {}
====
